---- MODULE Spec2Model ----
(***************************************************************************)
(* Scheduled reports for Grafana: the cron dispatcher (pkg/cron), the      *)
(* store and its single-writer write queue (pkg/store), and the settings   *)
(* handler of the API (pkg/api), as state machines.                        *)
(*                                                                         *)
(* Time is counted in whole minutes, the resolution of the polling loop.   *)
(* Spec is the dispatcher over a store whose writes are atomic steps;      *)
(* SpecWQ is the write queue itself, with its callers, its channel and its *)
(* worker goroutine.                                                       *)
(***************************************************************************)
EXTENDS Integers, Sequences, FiniteSets, TLC

VARIABLES
    now,            \* wall clock, in minutes
    schedules,      \* table schedules: id -> row
    runs,           \* table runs: id -> row
    settings,       \* table settings: org_id -> row
    nextRunId,      \* AUTOINCREMENT of runs
    nextVersion,    \* counts the settings bodies posted so far
    settingsCache,  \* Scheduler.settingsCache: org_id -> *Settings
    renderers,      \* Scheduler.renderers: org_id -> backend instance
    backends,       \* every backend instance created so far: id -> object
    workerPool,     \* number of tokens in the workerPool channel
    jobs,           \* executeSchedule goroutines: id -> frame
    nextJobId,      \* counts the goroutines started so far
    tickList,       \* checkDueSchedules: the due schedules not yet processed
    tickAdvance,    \* schedule id -> next_run_at the last tick persisted for it
    faults,         \* store write failures injected so far
    manualRuns,     \* run-now requests served so far
    settingsReq,    \* POST /api/settings in flight: org_id -> version posted
    committed,      \* org_id -> version whose write path has completed
    nextSchedId,    \* AUTOINCREMENT of schedules
    wqQueue,        \* writeQueue.queue: the buffered channel of writeOps
    wqCancelled,    \* writeQueue.ctx is cancelled
    wqWorker,       \* processQueue: its position and the op it executes
    wqCalls,        \* enqueue calls: op id -> frame of the caller
    wqAccepted,     \* op ids in the order the channel accepted them
    wqExecuted,     \* op ids in the order executeOp ran them
    wqClosed,       \* Store.Close has returned
    apiEdits,       \* PUT /api/schedules/{id} requests served so far
    dueCalls,       \* the results of the GetDueSchedules calls of a client, in order
    settingsRows,   \* table settings row by row: rowid -> row
    upsertOps,      \* UpsertSettings calls: call id -> frame of the op
    lastUpsert,     \* org_id -> the call whose upsert was executed last
    readers,        \* getCachedSettings calls: call id -> frame of the caller
    instances,      \* *model.Settings objects allocated by GetSettings so far
    invalidations,  \* ClearRendererCache calls made so far
    nextRunCall,    \* the last call of CalculateNextRun: its inputs and its result
    domainCall,     \* the last call of ValidateRecipientDomains, likewise
    tenantOp,       \* the request served last: its org, what it was, what it returned
    tenantJobs,     \* executions started by run-now requests of the tenants
    stop,           \* Scheduler.Stop: where the call is, the renderers it closed
    clearing,       \* ClearRendererCache in progress: its org and where it is
    poolCap         \* cap(Scheduler.workerPool)

schedVars == <<now, schedules, runs, settings, nextRunId, nextVersion,
               settingsCache, renderers, backends, workerPool, jobs,
               nextJobId, tickList, tickAdvance, faults, manualRuns, settingsReq,
               committed>>

wqVars == <<nextSchedId, wqQueue, wqCancelled, wqWorker, wqCalls, wqAccepted,
            wqExecuted, wqClosed>>

lifeVars == <<stop, clearing, poolCap>>

tblVars == <<settingsRows, upsertOps, lastUpsert, readers, instances, invalidations,
            nextRunCall, domainCall, tenantOp, tenantJobs, lifeVars>>

apiVars == <<apiEdits, dueCalls, tblVars>>

----------------------------------------------------------------------------
(* Bounds of the model *)

MaxTime == 3        \* minutes the clock runs
MaxJobs == 2        \* executeSchedule goroutines started
MaxManual == 2      \* run-now requests
MaxFaults == 1      \* store writes that fail
MaxVersion == 1     \* settings bodies posted
MaxConcurrent == 1  \* the maxConcurrent handed to NewScheduler
MaxCalls == 3       \* calls of enqueue
QueueCap == 2       \* capacity of writeQueue.queue in the model
MaxEdits == 1       \* PUT /api/schedules/{id} requests
MaxQueries == 2     \* GetDueSchedules calls of the client of the due query
MaxUpserts == 3     \* UpsertSettings calls
MaxReaders == 3     \* getCachedSettings calls made outside a job
MaxInvalidations == 1   \* ClearRendererCache calls made outside a settings post
MaxNow == 100       \* latest clock reading, in hours, given to CalculateNextRun
MaxShared == 2      \* the maxConcurrent of a Scheduler whose jobs run side by side
MaxTenantOps == 5   \* requests and execution steps of the two organizations

(* Program constants *)

maxRetries == 3

Orgs == {1}
SchedIds == {1, 2}
JobIds == 1..MaxJobs
CallIds == 1..MaxCalls
UpsertIds == 1..MaxUpserts
ReaderIds == 1..MaxReaders
Tenants == {1, 2}
CronExprs == {"* * * * *", "*/2 * * * *"}

\* A nil *time.Time, a NULL DATETIME column.
NULL == 0 - 1

----------------------------------------------------------------------------
(* pkg/store: the statements the write queue's worker executes *)

\* INSERT INTO schedules (...) VALUES (...): the row gets the next rowid.
createScheduleDirect(tbl, id, sch) ==
    [i \in DOMAIN tbl \cup {id} |-> IF i = id THEN [sch EXCEPT !.id = id] ELSE tbl[i]]

\* updateScheduleDirect without the column last_run_at in its SET list.
updateScheduleDirect_KeepLastRun(tbl, sch) ==
    IF sch.id \in DOMAIN tbl /\ tbl[sch.id].org_id = sch.org_id
    THEN [tbl EXCEPT ![sch.id] = [sch EXCEPT !.last_run_at = tbl[sch.id].last_run_at]]
    ELSE tbl

\* UPDATE schedules SET ... WHERE id = ? AND org_id = ?
updateScheduleDirect(tbl, sch) ==
    IF sch.id \in DOMAIN tbl /\ tbl[sch.id].org_id = sch.org_id
    THEN [tbl EXCEPT ![sch.id] = sch]
    ELSE tbl

\* _, err := s.db.Exec(UPDATE ...); return err: the error of the statement
\* itself, whatever the number of rows it matched.
updateScheduleError(tbl, sch, ok) == IF ok THEN <<>> ELSE <<"exec failed">>

\* NewStore sets the pragmas journal_mode and busy_timeout on the connection
\* and no other: foreign_keys keeps SQLite's default, off.
foreignKeys == FALSE

\* FOREIGN KEY (schedule_id) REFERENCES schedules(id) ON DELETE CASCADE: the
\* runs table after the schedule id has been deleted.
cascadeRuns(tbl, id) ==
    IF foreignKeys
    THEN [r \in {k \in DOMAIN tbl : tbl[k].schedule_id # id} |-> tbl[r]]
    ELSE tbl

\* DELETE FROM schedules WHERE id = ?
deleteScheduleDirect_AnyOrg(tbl, org, id) ==
    [i \in DOMAIN tbl \ {id} |-> tbl[i]]

\* DELETE FROM schedules WHERE id = ? AND org_id = ?
deleteScheduleDirect(tbl, org, id) ==
    [i \in {k \in DOMAIN tbl : ~(k = id /\ tbl[k].org_id = org)} |-> tbl[i]]

\* INSERT INTO runs (schedule_id, org_id, started_at, status, created_at)
createRunDirect(tbl, id, run) ==
    [i \in DOMAIN tbl \cup {id} |->
        IF i = id
        THEN [id |-> id, schedule_id |-> run.schedule_id, org_id |-> run.org_id,
              started_at |-> run.started_at, status |-> run.status,
              finished_at |-> NULL, error_text |-> <<>>, artifact |-> FALSE,
              email_sent |-> FALSE, email_error |-> ""]
        ELSE tbl[i]]

updateRunDirect_BySchedule(tbl, run) ==
    [i \in DOMAIN tbl |->
        IF tbl[i].schedule_id = run.schedule_id
        THEN [tbl[i] EXCEPT !.finished_at = run.finished_at,
                            !.status = run.status,
                            !.error_text = run.error_text,
                            !.artifact = run.artifact,
                            !.email_sent = run.email_sent,
                            !.email_error = run.email_error]
        ELSE tbl[i]]

\* UPDATE runs SET finished_at, status, error_text, artifact_data, ...,
\* email_sent, email_error WHERE id = ?
updateRunDirect(tbl, run) ==
    [i \in DOMAIN tbl |->
        IF i = run.id
        THEN [tbl[i] EXCEPT !.finished_at = run.finished_at,
                            !.status = run.status,
                            !.error_text = run.error_text,
                            !.artifact = run.artifact,
                            !.email_sent = run.email_sent,
                            !.email_error = run.email_error]
        ELSE tbl[i]]

\* INSERT INTO settings when the org has no row, else UPDATE ... WHERE org_id = ?
upsertSettingsDirect(tbl, s) ==
    [o \in DOMAIN tbl \cup {s.org_id} |-> IF o = s.org_id THEN s ELSE tbl[o]]

\* The WHERE clause with < in the place of <=.
IsDue_Strict(row, t) == row.enabled /\ (row.next_run_at = NULL \/ row.next_run_at < t)

\* WHERE enabled = 1 AND (next_run_at IS NULL OR next_run_at <= now)
IsDue(row, t) == row.enabled /\ (row.next_run_at = NULL \/ row.next_run_at <= t)

\* ORDER BY next_run_at ASC (NULL sorts first; rows of equal key in rowid order)
Before(a, b) ==
    \/ a.next_run_at < b.next_run_at
    \/ a.next_run_at = b.next_run_at /\ a.id < b.id

RECURSIVE OrderRows(_)
OrderRows(rows) ==
    IF rows = {} THEN <<>>
    ELSE LET first == CHOOSE r \in rows : \A q \in rows \ {r} : Before(r, q)
         IN  <<first>> \o OrderRows(rows \ {first})

GetDueSchedules(tbl, t) ==
    OrderRows({tbl[i] : i \in {k \in DOMAIN tbl : IsDue(tbl[k], t)}})

----------------------------------------------------------------------------
(* pkg/cron: next-run calculation *)

\* The firing period, in minutes, of a cron expression.
Period(expr) == IF expr = "*/2 * * * *" THEN 2 ELSE 1

\* cronexpr's Next: the first firing instant strictly after t.
CronNext(expr, t) == (t \div Period(expr) + 1) * Period(expr)

calculateNextRun(sch, t) == CronNext(sch.cron_expr, t)

----------------------------------------------------------------------------
(* pkg/cron: the dispatcher *)

NoErr == <<>>
NoSettings == [org_id |-> 0, version |-> NULL, smtp |-> FALSE]
NoRun == [id |-> 0, schedule_id |-> 0, org_id |-> 0, started_at |-> NULL,
          status |-> "", finished_at |-> NULL, error_text |-> NoErr,
          artifact |-> FALSE, email_sent |-> FALSE, email_error |-> ""]

\* &model.Run{ScheduleID, OrgID, StartedAt: time.Now(), Status: "running"}
NewRun(sch, t) ==
    [NoRun EXCEPT !.schedule_id = sch.id, !.org_id = sch.org_id,
                  !.started_at = t, !.status = "running"]

\* A run-now job that starts past the send on workerPool.
NewJob_ManualSkipsSlot(sch, origin) ==
    [pc |-> IF origin = "manual" THEN "createRun" ELSE "acquire",
     origin |-> origin, schedule |-> sch, run |-> NoRun,
     attempt |-> 0, lastErr |-> NoErr, err |-> NoErr,
     settings |-> NoSettings, renderer |-> 0, since |-> 0, sends |-> 0,
     slept |-> <<>>, onceCalls |-> 0]

\* The frame of a goroutine entering executeSchedule(schedule).
NewJob(sch, origin) ==
    [pc |-> "acquire", origin |-> origin, schedule |-> sch, run |-> NoRun,
     attempt |-> 0, lastErr |-> NoErr, err |-> NoErr,
     settings |-> NoSettings, renderer |-> 0, since |-> 0, sends |-> 0,
     slept |-> <<>>, onceCalls |-> 0]

\* go s.executeSchedule(schedule)
Spawn(frames, id, sch, origin) ==
    [j \in DOMAIN frames \cup {id} |->
        IF j = id THEN NewJob(sch, origin) ELSE frames[j]]

\* The result of a store write: it is applied, or it returns an error.
WriteResults == IF faults < MaxFaults THEN {TRUE, FALSE} ELSE {TRUE}
Fault(ok) == faults' = IF ok THEN faults ELSE faults + 1

\* The cron entry "0 * * * * *" fires: checkDueSchedules up to its loop.
TickBegin ==
    /\ stop.pc = "running"
    /\ tickList = <<>>
    /\ now < MaxTime
    /\ now' = now + 1
    /\ tickList' = GetDueSchedules(schedules, now + 1)
    /\ UNCHANGED <<wqVars, apiVars, nextJobId, schedules, runs, settings, nextRunId, nextVersion,
                   settingsCache, renderers, backends, workerPool, jobs,
                   tickAdvance, faults, manualRuns, settingsReq, committed>>

\* An iteration of the loop that takes the slot itself before it goes on.
TickStep_WaitsForSlot ==
    /\ tickList # <<>>
    /\ nextJobId <= MaxJobs
    /\ workerPool < MaxConcurrent
    /\ LET sch == [Head(tickList) EXCEPT
                      !.next_run_at = calculateNextRun(Head(tickList), now)]
       IN  \E ok \in WriteResults :
             /\ Fault(ok)
             /\ IF ok
                THEN /\ schedules' = updateScheduleDirect(schedules, sch)
                     /\ tickAdvance' = [tickAdvance EXCEPT ![sch.id] = sch.next_run_at]
                     /\ jobs' = Spawn(jobs, nextJobId, sch, "tick")
                     /\ nextJobId' = nextJobId + 1
                ELSE UNCHANGED <<schedules, tickAdvance, jobs, nextJobId>>
    /\ tickList' = Tail(tickList)
    /\ UNCHANGED <<wqVars, apiVars, now, runs, settings, nextRunId, nextVersion, settingsCache,
                   renderers, backends, workerPool, manualRuns, settingsReq,
                   committed>>

\* One iteration of the loop of checkDueSchedules.
TickStep ==
    /\ tickList # <<>>
    /\ nextJobId <= MaxJobs
    /\ LET sch == [Head(tickList) EXCEPT
                      !.next_run_at = calculateNextRun(Head(tickList), now)]
       IN  \E ok \in WriteResults :
             /\ Fault(ok)
             /\ IF ok
                THEN /\ schedules' = updateScheduleDirect(schedules, sch)
                     /\ tickAdvance' = [tickAdvance EXCEPT ![sch.id] = sch.next_run_at]
                     /\ jobs' = Spawn(jobs, nextJobId, sch, "tick")
                     /\ nextJobId' = nextJobId + 1
                ELSE UNCHANGED <<schedules, tickAdvance, jobs, nextJobId>>
    /\ tickList' = Tail(tickList)
    /\ UNCHANGED <<wqVars, apiVars, now, runs, settings, nextRunId, nextVersion, settingsCache,
                   renderers, backends, workerPool, manualRuns, settingsReq,
                   committed>>

\* POST /api/schedules/{id}/run: GetSchedule, then ExecuteSchedule.
ApiRunNow(id) ==
    /\ id \in DOMAIN schedules
    /\ manualRuns < MaxManual
    /\ nextJobId <= MaxJobs
    /\ manualRuns' = manualRuns + 1
    /\ jobs' = Spawn(jobs, nextJobId, schedules[id], "manual")
    /\ nextJobId' = nextJobId + 1
    /\ UNCHANGED <<wqVars, apiVars, now, schedules, runs, settings, nextRunId, nextVersion,
                   settingsCache, renderers, backends, workerPool, tickList,
                   tickAdvance, faults, settingsReq, committed>>

\* DELETE /api/schedules/{id}
ApiDeleteSchedule(id) ==
    /\ id \in DOMAIN schedules
    /\ \E ok \in WriteResults :
         /\ Fault(ok)
         /\ schedules' = IF ok
                         THEN deleteScheduleDirect(schedules, schedules[id].org_id, id)
                         ELSE schedules
         /\ tickAdvance' = IF ok THEN [tickAdvance EXCEPT ![id] = NULL]
                           ELSE tickAdvance
         /\ runs' = IF ok THEN cascadeRuns(runs, id) ELSE runs
    /\ UNCHANGED <<wqVars, apiVars, now, nextJobId, settings, nextRunId, nextVersion, settingsCache,
                   renderers, backends, workerPool, jobs, tickList, manualRuns,
                   settingsReq, committed>>

\* The handlers of POST /api/schedules and PUT /api/schedules/{id} compute
\* the next run of an enabled schedule and clear it for a disabled one.
WithNextRun(sch, t) ==
    [sch EXCEPT !.next_run_at = IF sch.enabled THEN calculateNextRun(sch, t) ELSE NULL]

\* The JSON body of a create or an edit, decoded into a model.Schedule.
ScheduleBody(name, enabled, expr, lastRun) ==
    [id |-> 0, org_id |-> 1, name |-> name, enabled |-> enabled,
     cron_expr |-> expr, last_run_at |-> lastRun, next_run_at |-> NULL]

\* POST /api/schedules.  A failed INSERT leaves the table as it was and is
\* a stuttering step.
ApiCreateSchedule(enabled, expr) ==
    /\ nextSchedId \in SchedIds
    /\ schedules' = createScheduleDirect(schedules, nextSchedId,
                        WithNextRun(ScheduleBody("added", enabled, expr, NULL), now))
    /\ nextSchedId' = nextSchedId + 1
    /\ UNCHANGED <<apiVars, wqQueue, wqCancelled, wqWorker, wqCalls, wqAccepted,
                   wqExecuted, wqClosed, now, nextJobId, runs, settings, nextRunId,
                   nextVersion, settingsCache, renderers, backends, workerPool,
                   jobs, tickList, tickAdvance, manualRuns, settingsReq, committed,
                   faults>>

\* PUT /api/schedules/{id}: the client sends the schedule back with a new
\* name and its enabled flag set or cleared; the row is overwritten.  A
\* failed UPDATE leaves the table as it was.
ApiUpdateSchedule(id, enabled) ==
    /\ id \in DOMAIN schedules
    /\ apiEdits < MaxEdits
    /\ apiEdits' = apiEdits + 1
    /\ LET body == ScheduleBody("edited", enabled, schedules[id].cron_expr,
                                schedules[id].last_run_at)
           sch == WithNextRun([body EXCEPT !.id = id,
                                           !.org_id = schedules[id].org_id], now)
       IN  schedules' = updateScheduleDirect(schedules, sch)
    /\ tickAdvance' = [tickAdvance EXCEPT ![id] = NULL]
    /\ UNCHANGED <<wqVars, dueCalls, tblVars, now, nextJobId, runs, settings, nextRunId,
                   nextVersion, settingsCache, renderers, backends, workerPool,
                   jobs, tickList, manualRuns, settingsReq, committed, faults>>

----------------------------------------------------------------------------
(* pkg/cron: executeSchedule, one goroutine per dispatched job *)

Org(j) == jobs[j].schedule.org_id

\* A send on workerPool, a channel of capacity maxConcurrent, can proceed.
SlotFree_Unbounded(n) == TRUE

SlotFree_OneShort(n) == n + 1 < MaxConcurrent

SlotFree(n) == n < poolCap

\* workerPool <- struct{}{}: blocks while the channel is full.
Acquire(j) ==
    /\ j \in DOMAIN jobs
    /\ jobs[j].pc = "acquire"
    /\ SlotFree(workerPool)
    /\ workerPool' = workerPool + 1
    /\ jobs' = [jobs EXCEPT ![j].pc = "createRun"]
    /\ UNCHANGED <<wqVars, apiVars, now, nextJobId, schedules, runs, settings, nextRunId, nextVersion,
                   settingsCache, renderers, backends, tickList, tickAdvance,
                   faults, manualRuns, settingsReq, committed>>

\* The goroutine returns: the deferred <-workerPool runs and the frame is gone.
Exit(frames, j) == [k \in DOMAIN frames \ {j} |-> frames[k]]

\* store.CreateRun(run); on an error the job returns.
CreateRun(j) ==
    /\ j \in DOMAIN jobs
    /\ jobs[j].pc = "createRun"
    /\ \E ok \in WriteResults :
         /\ Fault(ok)
         /\ IF ok
            THEN /\ runs' = createRunDirect(runs, nextRunId, NewRun(jobs[j].schedule, now))
                 /\ nextRunId' = nextRunId + 1
                 /\ jobs' = [jobs EXCEPT
                       ![j].run = [NewRun(jobs[j].schedule, now) EXCEPT !.id = nextRunId],
                       ![j].pc = "attempt"]
                 /\ UNCHANGED workerPool
            ELSE /\ jobs' = Exit(jobs, j)
                 /\ workerPool' = workerPool - 1
                 /\ UNCHANGED <<runs, nextRunId>>
    /\ UNCHANGED <<wqVars, apiVars, now, nextJobId, schedules, settings, nextVersion, settingsCache,
                   renderers, backends, tickList, tickAdvance, manualRuns,
                   settingsReq, committed>>

\* fmt.Errorf("all %d attempts failed: %w", maxRetries, lastErr)
AllFailed(lastErr) == <<"all attempts failed", maxRetries>> \o lastErr

AttemptFailed_KeepFirst(f, e) ==
    IF f.attempt + 1 < maxRetries
    THEN [f EXCEPT !.lastErr = IF @ = NoErr THEN e ELSE @,
                   !.attempt = f.attempt + 1, !.pc = "attempt"]
    ELSE [f EXCEPT !.lastErr = IF @ = NoErr THEN e ELSE @,
                   !.attempt = f.attempt + 1,
                   !.err = AllFailed(IF f.lastErr = NoErr THEN e ELSE f.lastErr),
                   !.pc = "finalize"]

\* A retry that starts over at the creation of the Run.
AttemptFailed_NewRun(f, e) ==
    IF f.attempt + 1 < maxRetries
    THEN [f EXCEPT !.lastErr = e, !.attempt = f.attempt + 1, !.pc = "createRun"]
    ELSE [f EXCEPT !.lastErr = e, !.attempt = f.attempt + 1,
                   !.err = AllFailed(e), !.pc = "finalize"]

\* executeWithRetry after executeScheduleOnce returned the error e.
AttemptFailed(f, e) ==
    IF f.attempt + 1 < maxRetries
    THEN [f EXCEPT !.lastErr = e, !.attempt = f.attempt + 1, !.pc = "attempt"]
    ELSE [f EXCEPT !.lastErr = e, !.attempt = f.attempt + 1,
                   !.err = AllFailed(e), !.pc = "finalize"]

\* An attempt whose email was not sent counts as failed.
AttemptSucceeded_RetryUnsent(f) ==
    IF f.run.email_sent THEN [f EXCEPT !.err = NoErr, !.pc = "finalize"]
    ELSE AttemptFailed(f, <<"failed to send email", f.attempt + 1>>)

\* executeWithRetry after executeScheduleOnce returned nil.
AttemptSucceeded(f) == [f EXCEPT !.err = NoErr, !.pc = "finalize"]

\* The sleep before every attempt but the first squares the attempt number
\* where it should double it.
backoff_Doubled(attempt) == 2 * attempt

\* backoff := time.Duration(attempt*attempt) * time.Second, in seconds.
backoff(attempt) == attempt * attempt

\* The head of the loop of executeWithRetry: time.Sleep(backoff) when
\* attempt > 0 (slept lists the sleeps of the job), then executeScheduleOnce is
\* called (onceCalls counts its calls).
Slept(f) ==
    [f EXCEPT !.slept = IF f.attempt > 0 THEN Append(@, backoff(f.attempt)) ELSE @,
              !.onceCalls = @ + 1]

\* An attempt starts (after its backoff sleep): getCachedSettings reads the
\* cache under the read lock.
BeginAttempt(j) ==
    /\ j \in DOMAIN jobs
    /\ jobs[j].pc = "attempt"
    /\ clearing.org = 0
    /\ jobs' = [jobs EXCEPT ![j] =
          IF Org(j) \in DOMAIN settingsCache
          THEN [Slept(@) EXCEPT !.settings = settingsCache[Org(j)],
                                !.since = committed[Org(j)], !.pc = "getRenderer"]
          ELSE [Slept(@) EXCEPT !.since = committed[Org(j)], !.pc = "dbSettings"]]
    /\ UNCHANGED <<wqVars, apiVars, now, nextJobId, schedules, runs, settings, nextRunId, nextVersion,
                   settingsCache, renderers, backends, workerPool, tickList,
                   tickAdvance, faults, manualRuns, settingsReq, committed>>

\* getCachedSettings on a miss: store.GetSettings; a nil result ends the attempt
\* with "no settings configured for org".
DbSettings(j) ==
    /\ j \in DOMAIN jobs
    /\ jobs[j].pc = "dbSettings"
    /\ jobs' = [jobs EXCEPT ![j] =
          IF Org(j) \in DOMAIN settings
          THEN [@ EXCEPT !.settings = settings[Org(j)], !.pc = "cacheStore"]
          ELSE AttemptFailed(@, <<"no settings configured", @.attempt + 1>>)]
    /\ UNCHANGED <<wqVars, apiVars, now, nextJobId, schedules, runs, settings, nextRunId, nextVersion,
                   settingsCache, renderers, backends, workerPool, tickList,
                   tickAdvance, faults, manualRuns, settingsReq, committed>>

\* getCachedSettings on a miss: the cache is filled under the write lock.
CacheStore(j) ==
    /\ j \in DOMAIN jobs
    /\ jobs[j].pc = "cacheStore"
    /\ clearing.org = 0
    /\ settingsCache' = [o \in DOMAIN settingsCache \cup {Org(j)} |->
                            IF o = Org(j) THEN jobs[j].settings ELSE settingsCache[o]]
    /\ jobs' = [jobs EXCEPT ![j].pc = "getRenderer"]
    /\ UNCHANGED <<wqVars, apiVars, now, nextJobId, schedules, runs, settings, nextRunId, nextVersion,
                   renderers, backends, workerPool, tickList, tickAdvance,
                   faults, manualRuns, settingsReq, committed>>

\* renderer, exists := s.renderers[schedule.OrgID]
GetRenderer(j) ==
    /\ j \in DOMAIN jobs
    /\ jobs[j].pc = "getRenderer"
    /\ jobs' = [jobs EXCEPT ![j] =
          IF Org(j) \in DOMAIN renderers
          THEN [@ EXCEPT !.renderer = renderers[Org(j)], !.pc = "render"]
          ELSE [@ EXCEPT !.pc = "newRenderer"]]
    /\ UNCHANGED <<wqVars, apiVars, now, nextJobId, schedules, runs, settings, nextRunId, nextVersion,
                   settingsCache, renderers, backends, workerPool, tickList,
                   tickAdvance, faults, manualRuns, settingsReq, committed>>

\* render.NewBackend(grafanaURL, settings.RendererConfig) and its entry in the map.
NewBackend(cfg) == [config |-> cfg, closed |-> FALSE]

NewRenderer(j) ==
    /\ j \in DOMAIN jobs
    /\ jobs[j].pc = "newRenderer"
    /\ LET id == Cardinality(DOMAIN backends) + 1
       IN  /\ backends' = [b \in DOMAIN backends \cup {id} |->
                              IF b = id THEN NewBackend(jobs[j].settings.version)
                              ELSE backends[b]]
           /\ renderers' = [o \in DOMAIN renderers \cup {Org(j)} |->
                              IF o = Org(j) THEN id ELSE renderers[o]]
           /\ jobs' = [jobs EXCEPT ![j].renderer = id, ![j].pc = "render"]
    /\ UNCHANGED <<wqVars, apiVars, now, nextJobId, schedules, runs, settings, nextRunId, nextVersion,
                   settingsCache, workerPool, tickList, tickAdvance, faults,
                   manualRuns, settingsReq, committed>>

\* renderer.RenderDashboard: the PDF, or an error that ends the attempt.
Render(j) ==
    /\ j \in DOMAIN jobs
    /\ jobs[j].pc = "render"
    /\ \E rendered \in BOOLEAN :
         jobs' = [jobs EXCEPT ![j] =
            IF rendered
            THEN [@ EXCEPT !.run.artifact = TRUE, !.pc = "persist"]
            ELSE AttemptFailed(@, <<"failed to render dashboard", @.attempt + 1>>)]
    /\ UNCHANGED <<wqVars, apiVars, now, nextJobId, schedules, runs, settings, nextRunId, nextVersion,
                   settingsCache, renderers, backends, workerPool, tickList,
                   tickAdvance, faults, manualRuns, settingsReq, committed>>

\* store.UpdateRun(run) with the artifact, before the email; an error is logged.
Persist(j) ==
    /\ j \in DOMAIN jobs
    /\ jobs[j].pc = "persist"
    /\ \E ok \in WriteResults :
         /\ Fault(ok)
         /\ runs' = IF ok THEN updateRunDirect(runs, jobs[j].run) ELSE runs
    /\ jobs' = [jobs EXCEPT ![j].pc = "email"]
    /\ UNCHANGED <<wqVars, apiVars, now, nextJobId, schedules, settings, nextRunId, nextVersion,
                   settingsCache, renderers, backends, workerPool, tickList,
                   tickAdvance, manualRuns, settingsReq, committed>>

Emailed_FailureUnrecorded(run, smtp, sent) ==
    IF smtp /\ sent THEN [run EXCEPT !.email_sent = TRUE, !.email_error = ""]
    ELSE run

\* The email part of executeScheduleOnce: the run's email fields after it.
\* mailer.SendReport is called (sends counts the calls) only with an SMTP
\* configuration.
Emailed(run, smtp, sent) ==
    IF ~smtp THEN [run EXCEPT !.email_sent = FALSE, !.email_error = "SMTP not configured"]
    ELSE IF sent THEN [run EXCEPT !.email_sent = TRUE, !.email_error = ""]
    ELSE [run EXCEPT !.email_sent = FALSE, !.email_error = "send failed"]

Email(j) ==
    /\ j \in DOMAIN jobs
    /\ jobs[j].pc = "email"
    /\ \E sent \in (IF jobs[j].settings.smtp THEN BOOLEAN ELSE {FALSE}) :
       \E ok \in WriteResults :
         LET run == Emailed(jobs[j].run, jobs[j].settings.smtp, sent)
         IN  /\ Fault(ok)
             /\ runs' = IF ok THEN updateRunDirect(runs, run) ELSE runs
             /\ jobs' = [jobs EXCEPT ![j] = AttemptSucceeded(
                    [@ EXCEPT !.run = run,
                              !.sends = IF jobs[j].settings.smtp THEN @ + 1 ELSE @])]
    /\ UNCHANGED <<wqVars, apiVars, now, nextJobId, schedules, settings, nextRunId, nextVersion,
                   settingsCache, renderers, backends, workerPool, tickList,
                   tickAdvance, manualRuns, settingsReq, committed>>

\* executeSchedule after executeWithRetry: the run's final fields.
Finished(run, err, t) ==
    IF err # NoErr
    THEN [run EXCEPT !.finished_at = t, !.status = "failed", !.error_text = err]
    ELSE [run EXCEPT !.finished_at = t, !.status = "completed"]

Finalize(j) ==
    /\ j \in DOMAIN jobs
    /\ jobs[j].pc = "finalize"
    /\ \E ok \in WriteResults :
         LET run == Finished(jobs[j].run, jobs[j].err, now)
         IN  /\ Fault(ok)
             /\ runs' = IF ok THEN updateRunDirect(runs, run) ELSE runs
             /\ jobs' = [jobs EXCEPT ![j].run = run, ![j].pc = "updateSchedule"]
    /\ UNCHANGED <<wqVars, apiVars, now, nextJobId, schedules, settings, nextRunId, nextVersion,
                   settingsCache, renderers, backends, workerPool, tickList,
                   tickAdvance, manualRuns, settingsReq, committed>>

\* schedule.LastRunAt = &run.StartedAt; store.UpdateSchedule(schedule); return.
UpdateLastRun(j) ==
    /\ j \in DOMAIN jobs
    /\ jobs[j].pc = "updateSchedule"
    /\ \E ok \in WriteResults :
         LET sch == [jobs[j].schedule EXCEPT !.last_run_at = jobs[j].run.started_at]
         IN  /\ Fault(ok)
             /\ schedules' = IF ok THEN updateScheduleDirect(schedules, sch)
                             ELSE schedules
    /\ jobs' = Exit(jobs, j)
    /\ workerPool' = workerPool - 1
    /\ UNCHANGED <<wqVars, apiVars, now, nextJobId, runs, settings, nextRunId, nextVersion, settingsCache,
                   renderers, backends, tickList, tickAdvance, manualRuns,
                   settingsReq, committed>>

----------------------------------------------------------------------------
(* pkg/api: POST /api/settings *)

\* store.UpsertSettings(&settings); on an error the handler returns.
ApiSettingsUpsert(org) ==
    /\ settingsReq[org] = 0
    /\ nextVersion <= MaxVersion
    /\ nextVersion' = nextVersion + 1
    /\ \E smtp \in BOOLEAN : \E ok \in WriteResults :
         /\ Fault(ok)
         /\ settings' = IF ok
                        THEN upsertSettingsDirect(settings,
                                [org_id |-> org, version |-> nextVersion, smtp |-> smtp])
                        ELSE settings
         /\ settingsReq' = IF ok THEN [settingsReq EXCEPT ![org] = nextVersion]
                           ELSE settingsReq
    /\ UNCHANGED <<wqVars, apiVars, now, nextJobId, schedules, runs, nextRunId, settingsCache, renderers,
                   backends, workerPool, jobs, tickList, tickAdvance, manualRuns,
                   committed>>

\* Scheduler.ClearRendererCache(orgID), under the write lock.
ClearRendererCache(org) ==
    /\ backends' = [b \in DOMAIN backends |->
                      IF org \in DOMAIN renderers /\ renderers[org] = b
                      THEN [backends[b] EXCEPT !.closed = TRUE]
                      ELSE backends[b]]
    /\ renderers' = [o \in DOMAIN renderers \ {org} |-> renderers[o]]
    /\ settingsCache' = [o \in DOMAIN settingsCache \ {org} |-> settingsCache[o]]

\* The handler goes on: h.scheduler.ClearRendererCache(orgID), then the response.
ApiSettingsClear(org) ==
    /\ settingsReq[org] # 0
    /\ ClearRendererCache(org)
    /\ committed' = [committed EXCEPT ![org] = settingsReq[org]]
    /\ settingsReq' = [settingsReq EXCEPT ![org] = 0]
    /\ UNCHANGED <<wqVars, apiVars, now, nextJobId, schedules, runs, settings, nextRunId, nextVersion,
                   workerPool, jobs, tickList, tickAdvance, faults, manualRuns>>

----------------------------------------------------------------------------
(* The dispatcher's specification *)

\* The frame of an UpsertSettings call that has not been made.
NoUpsert == [pc |-> "idle", org_id |-> 0, existing |-> FALSE, result |-> ""]

\* No call of CalculateNextRun has been made.
NoNextRunCall == [made |-> FALSE]
NoDomainCall == [made |-> FALSE]
NoStop == [pc |-> "running", live |-> {}, closed |-> {}, errors |-> {}]
NoClearing == [org |-> 0, pc |-> "", removed |-> 0]
NoTenantOp == [n |-> 0, org |-> 0, op |-> "", id |-> 0, returned |-> {}]

\* The frame of a getCachedSettings call that has not been made.
NoReader == [pc |-> "idle", org_id |-> 0, from |-> 0, to |-> 0, read |-> FALSE,
             settings |-> NoSettings, instance |-> 0]

\* An empty settings table and no UpsertSettings call.
InitTables ==
    /\ settingsRows = <<>>
    /\ upsertOps = [c \in UpsertIds |-> NoUpsert]
    /\ lastUpsert = [o \in Tenants |-> 0]
    /\ readers = [c \in ReaderIds |-> NoReader]
    /\ instances = 0
    /\ invalidations = 0
    /\ nextRunCall = NoNextRunCall
    /\ domainCall = NoDomainCall
    /\ tenantOp = NoTenantOp
    /\ tenantJobs = <<>>
    /\ stop = NoStop
    /\ clearing = NoClearing

\* A store opened on a database that holds one enabled schedule and a
\* settings row, and a freshly constructed Scheduler.
InitialSchedule(id, expr) ==
    [id |-> id, org_id |-> 1, name |-> "report", enabled |-> TRUE,
     cron_expr |-> expr, last_run_at |-> NULL,
     next_run_at |-> CronNext(expr, 0)]

InitialSettings(org) == [org_id |-> org, version |-> 0, smtp |-> FALSE]

\* The frame of an enqueue call that has not been made.
NoCall == [pc |-> "idle", opType |-> "", response |-> "", result |-> "", id |-> 0]

\* NewScheduler(st, grafanaURL, artifactsPath, maxConcurrent), a write queue
\* and an API handler just constructed.
InitScheduler(maxConcurrent, failedWrites) ==
    /\ poolCap = maxConcurrent
    /\ faults = failedWrites
    /\ now = 0
    /\ nextVersion = 1
    /\ settingsCache = <<>>
    /\ renderers = <<>>
    /\ backends = <<>>
    /\ workerPool = 0
    /\ jobs = <<>>
    /\ nextJobId = 1
    /\ tickList = <<>>
    /\ tickAdvance = [id \in SchedIds |-> NULL]
    /\ manualRuns = 0
    /\ settingsReq = [o \in Tenants |-> 0]
    /\ committed = [o \in Tenants |-> 0]
    /\ wqQueue = <<>>
    /\ wqCancelled = FALSE
    /\ wqWorker = [pc |-> "select", op |-> 0]
    /\ wqCalls = [c \in CallIds |-> NoCall]
    /\ wqAccepted = <<>>
    /\ wqExecuted = <<>>
    /\ wqClosed = FALSE
    /\ apiEdits = 0
    /\ dueCalls = <<>>
    /\ InitTables

InitProcess == InitScheduler(MaxConcurrent, 0)

Init ==
    /\ \E expr \in CronExprs :
         schedules = [id \in {1} |-> InitialSchedule(id, expr)]
    /\ runs = <<>>
    /\ settings = [o \in Orgs |-> InitialSettings(o)]
    /\ nextRunId = 1
    /\ nextSchedId = 2
    /\ InitProcess

Next ==
    \/ TickBegin
    \/ TickStep
    \/ \E id \in SchedIds : ApiRunNow(id)
    \/ \E id \in SchedIds : ApiDeleteSchedule(id)
    \/ \E j \in JobIds : Acquire(j)
    \/ \E j \in JobIds : CreateRun(j)
    \/ \E j \in JobIds : BeginAttempt(j)
    \/ \E j \in JobIds : DbSettings(j)
    \/ \E j \in JobIds : CacheStore(j)
    \/ \E j \in JobIds : GetRenderer(j)
    \/ \E j \in JobIds : NewRenderer(j)
    \/ \E j \in JobIds : Render(j)
    \/ \E j \in JobIds : Persist(j)
    \/ \E j \in JobIds : Email(j)
    \/ \E j \in JobIds : Finalize(j)
    \/ \E j \in JobIds : UpdateLastRun(j)

vars == <<schedVars, wqVars, apiVars>>

Spec == Init /\ [][Next]_vars

\* The steps of the goroutine of job j.
JobStep(j) ==
    \/ Acquire(j) \/ CreateRun(j) \/ BeginAttempt(j) \/ DbSettings(j)
    \/ CacheStore(j) \/ GetRenderer(j) \/ NewRenderer(j) \/ Render(j)
    \/ Persist(j) \/ Email(j) \/ Finalize(j) \/ UpdateLastRun(j)

\* The dispatcher with the Go scheduler running every goroutine that can take
\* a step, so that a job holding a slot finishes; the runtime serves the
\* goroutines blocked in a send on workerPool in the order they arrived, so
\* none of them is passed over for ever.
FairSpec ==
    /\ Spec
    /\ \A j \in JobIds : WF_vars(JobStep(j))
    /\ \A j \in JobIds : SF_vars(Acquire(j))

----------------------------------------------------------------------------
(* The dispatcher while schedules are edited or created through the API *)

\* The polling loop, the run-now requests and the job goroutines.
DispatcherStep ==
    \/ TickBegin
    \/ TickStep
    \/ \E id \in SchedIds : ApiRunNow(id)
    \/ \E j \in JobIds : Acquire(j)
    \/ \E j \in JobIds : CreateRun(j)
    \/ \E j \in JobIds : BeginAttempt(j)
    \/ \E j \in JobIds : DbSettings(j)
    \/ \E j \in JobIds : CacheStore(j)
    \/ \E j \in JobIds : GetRenderer(j)
    \/ \E j \in JobIds : NewRenderer(j)
    \/ \E j \in JobIds : Render(j)
    \/ \E j \in JobIds : Persist(j)
    \/ \E j \in JobIds : Email(j)
    \/ \E j \in JobIds : Finalize(j)
    \/ \E j \in JobIds : UpdateLastRun(j)

NextApi ==
    \/ DispatcherStep
    \/ \E id \in SchedIds : \E enabled \in BOOLEAN : ApiUpdateSchedule(id, enabled)

SpecApi == Init /\ [][NextApi]_vars

NextTwo ==
    \/ DispatcherStep
    \/ \E enabled \in BOOLEAN : ApiCreateSchedule(enabled, "* * * * *")

SpecTwo == Init /\ [][NextTwo]_vars

----------------------------------------------------------------------------
(* The due query on its own: tables of schedules as the schema allows them *)

\* The rows a schedules table can hold for one id: the columns enabled
\* (NOT NULL DEFAULT 1) and next_run_at (nullable) are independent.  Times
\* are stored as UTC "2006-01-02 15:04:05" and compared as such; the model
\* counts whole minutes, on which that formatting loses nothing.
ScheduleRows(id) ==
    {[InitialSchedule(id, "* * * * *") EXCEPT !.enabled = e, !.next_run_at = t] :
        e \in BOOLEAN, t \in {NULL} \cup (0..MaxTime)}

InitDue ==
    /\ \E ids \in SUBSET SchedIds :
         schedules \in [ids -> UNION {ScheduleRows(id) : id \in SchedIds}]
    /\ \A id \in DOMAIN schedules : schedules[id].id = id
    /\ \E t \in 0..MaxTime : now = t
    /\ runs = <<>>
    /\ settings = [o \in Orgs |-> InitialSettings(o)]
    /\ nextRunId = 1
    /\ nextSchedId = 3
    /\ nextVersion = 1
    /\ poolCap = MaxConcurrent
    /\ settingsCache = <<>>
    /\ renderers = <<>>
    /\ backends = <<>>
    /\ workerPool = 0
    /\ jobs = <<>>
    /\ nextJobId = 1
    /\ tickList = <<>>
    /\ tickAdvance = [id \in SchedIds |-> NULL]
    /\ faults = 0
    /\ manualRuns = 0
    /\ settingsReq = [o \in Orgs |-> 0]
    /\ committed = [o \in Orgs |-> 0]
    /\ wqQueue = <<>>
    /\ wqCancelled = FALSE
    /\ wqWorker = [pc |-> "select", op |-> 0]
    /\ wqCalls = [c \in CallIds |-> NoCall]
    /\ wqAccepted = <<>>
    /\ wqExecuted = <<>>
    /\ wqClosed = FALSE
    /\ apiEdits = 0
    /\ dueCalls = <<>>
    /\ InitTables

\* store.GetDueSchedules(): time.Now() is read, the SELECT runs, the rows
\* are returned.  The call is recorded with the clock and the table it saw.
DueQuery ==
    /\ Len(dueCalls) < MaxQueries
    /\ dueCalls' = Append(dueCalls, [at |-> now, table |-> schedules,
                                     result |-> GetDueSchedules(schedules, now)])
    /\ UNCHANGED <<schedVars, wqVars, apiEdits, tblVars>>

\* A minute passes.
ClockTick ==
    /\ now < MaxTime
    /\ now' = now + 1
    /\ UNCHANGED <<wqVars, apiVars, schedules, runs, settings, nextRunId,
                   nextVersion, settingsCache, renderers, backends, workerPool,
                   jobs, nextJobId, tickList, tickAdvance, faults, manualRuns,
                   settingsReq, committed>>

NextDue ==
    \/ DueQuery
    \/ ClockTick
    \/ \E id \in SchedIds : \E enabled \in BOOLEAN : ApiUpdateSchedule(id, enabled)

SpecDue == InitDue /\ [][NextDue]_vars

----------------------------------------------------------------------------
(* The settings table row by row under concurrent UpsertSettings calls *)

\* The rowids of the settings rows of an org.
RowsOf(tbl, org) == {r \in DOMAIN tbl : tbl[r].org_id = org}

\* processQueue executes one op at a time: it takes the next one when the
\* one before has sent its result.
WorkerIdle_Many(ops) == TRUE

WorkerIdle(ops) == \A c \in DOMAIN ops : ops[c].pc # "exec"

\* INSERT INTO settings (org_id, ...): org_id is UNIQUE, the row gets the
\* next rowid.
InsertSettings(tbl, org, c) ==
    IF RowsOf(tbl, org) # {}
    THEN [tbl |-> tbl, result |-> "UNIQUE constraint failed"]
    ELSE LET id == Cardinality(DOMAIN tbl) + 1
         IN  [tbl |-> [r \in DOMAIN tbl \cup {id} |->
                         IF r = id THEN [org_id |-> org, values |-> c] ELSE tbl[r]],
              result |-> "ok"]

\* UPDATE settings SET ... WHERE org_id = ?
UpdateSettings(tbl, org, c) ==
    [tbl |-> [r \in DOMAIN tbl |->
                IF tbl[r].org_id = org THEN [tbl[r] EXCEPT !.values = c] ELSE tbl[r]],
     result |-> "ok"]

\* A caller enters Store.UpsertSettings for an org: the op is in the queue.
UpsertSettingsCall(c, org) ==
    /\ upsertOps[c].pc = "idle"
    /\ upsertOps' = [upsertOps EXCEPT ![c] = [NoUpsert EXCEPT !.pc = "queued",
                                                             !.org_id = org]]
    /\ UNCHANGED <<schedVars, wqVars, apiEdits, dueCalls, settingsRows, lastUpsert,
                   readers, instances, invalidations, nextRunCall, domainCall,
                   tenantOp, tenantJobs, lifeVars>>

\* The worker takes the op: upsertSettingsDirect up to existing, err :=
\* s.GetSettings(settings.OrgID).
UpsertRead(c) ==
    /\ upsertOps[c].pc = "queued"
    /\ WorkerIdle(upsertOps)
    /\ upsertOps' = [upsertOps EXCEPT
          ![c].pc = "exec",
          ![c].existing = (RowsOf(settingsRows, upsertOps[c].org_id) # {})]
    /\ UNCHANGED <<schedVars, wqVars, apiEdits, dueCalls, settingsRows, lastUpsert,
                   readers, instances, invalidations, nextRunCall, domainCall,
                   tenantOp, tenantJobs, lifeVars>>

\* upsertSettingsDirect from if existing == nil on: the INSERT or the
\* UPDATE, and the result goes back to the caller.
UpsertWrite(c) ==
    /\ upsertOps[c].pc = "exec"
    /\ LET org == upsertOps[c].org_id
           out == IF upsertOps[c].existing
                  THEN UpdateSettings(settingsRows, org, c)
                  ELSE InsertSettings(settingsRows, org, c)
       IN  /\ settingsRows' = out.tbl
           /\ upsertOps' = [upsertOps EXCEPT ![c].pc = "done",
                                             ![c].result = out.result]
           /\ lastUpsert' = [lastUpsert EXCEPT ![org] = c]
    /\ UNCHANGED <<schedVars, wqVars, apiEdits, dueCalls, readers, instances,
                   invalidations, nextRunCall, domainCall,
                   tenantOp, tenantJobs, lifeVars>>

InitUpsert ==
    /\ schedules = <<>>
    /\ runs = <<>>
    /\ settings = <<>>
    /\ nextRunId = 1
    /\ nextSchedId = 1
    /\ InitProcess

NextUpsert ==
    \/ \E c \in UpsertIds : \E org \in Tenants : UpsertSettingsCall(c, org)
    \/ \E c \in UpsertIds : UpsertRead(c)
    \/ \E c \in UpsertIds : UpsertWrite(c)

SpecUpsert == InitUpsert /\ [][NextUpsert]_vars

----------------------------------------------------------------------------
(* getCachedSettings called from several goroutines, as the cache tests do *)

readerUnchanged ==
    UNCHANGED <<wqVars, apiEdits, dueCalls, settingsRows, upsertOps, lastUpsert,
                nextRunCall, domainCall, tenantOp, tenantJobs, lifeVars,
                now, schedules, runs, settings, nextRunId, nextVersion, workerPool,
                jobs, nextJobId, tickList, tickAdvance, faults, manualRuns,
                settingsReq, committed>>

\* getCachedSettings up to the test of exists: the cache is read under the
\* read lock; a hit returns the cached pointer.
ReaderBegin(c, org) ==
    /\ readers[c].pc = "idle"
    /\ readers' = [readers EXCEPT ![c] =
          IF org \in DOMAIN settingsCache
          THEN [NoReader EXCEPT !.pc = "done", !.org_id = org,
                                !.from = invalidations, !.to = invalidations,
                                !.settings = settingsCache[org].settings,
                                !.instance = settingsCache[org].instance]
          ELSE [NoReader EXCEPT !.pc = "miss", !.org_id = org,
                                !.from = invalidations]]
    /\ UNCHANGED <<settingsCache, renderers, backends, instances, invalidations>>
    /\ readerUnchanged

\* store.GetSettings(orgID) on a miss: the row is scanned into a new
\* model.Settings object.
ReaderGetSettings(c) ==
    /\ readers[c].pc = "miss"
    /\ readers[c].org_id \in DOMAIN settings
    /\ instances' = instances + 1
    /\ readers' = [readers EXCEPT ![c].pc = "store", ![c].read = TRUE,
                                  ![c].settings = settings[readers[c].org_id],
                                  ![c].instance = instances + 1]
    /\ UNCHANGED <<settingsCache, renderers, backends, invalidations>>
    /\ readerUnchanged

\* s.settingsCache[orgID] = settings under the write lock, and the return.
ReaderStore(c) ==
    /\ readers[c].pc = "store"
    /\ settingsCache' =
          [o \in DOMAIN settingsCache \cup {readers[c].org_id} |->
              IF o = readers[c].org_id
              THEN [settings |-> readers[c].settings, instance |-> readers[c].instance]
              ELSE settingsCache[o]]
    /\ readers' = [readers EXCEPT ![c].pc = "done", ![c].to = invalidations]
    /\ UNCHANGED <<renderers, backends, instances, invalidations>>
    /\ readerUnchanged

\* Scheduler.ClearRendererCache(orgID) called between the reads.
ReaderInvalidate(org) ==
    /\ invalidations < MaxInvalidations
    /\ invalidations' = invalidations + 1
    /\ ClearRendererCache(org)
    /\ UNCHANGED <<readers, instances>>
    /\ readerUnchanged

NextReaders ==
    \/ \E c \in ReaderIds : \E org \in Orgs : ReaderBegin(c, org)
    \/ \E c \in ReaderIds : ReaderGetSettings(c)
    \/ \E c \in ReaderIds : ReaderStore(c)
    \/ \E org \in Orgs : ReaderInvalidate(org)

SpecReaders == Init /\ [][NextReaders]_vars

----------------------------------------------------------------------------
(* CalculateNextRun on a calendar.  Instants are whole hours of UTC; a day
   has 24 hours, a week 7 days from a Monday, a month 28 days; hour 0 is the
   midnight that begins a Monday and the first day of a month. *)

HoursPerDay == 24
DaysPerWeek == 7
DaysPerMonth == 28

\* The day of the calendar on which the zones with daylight saving time move
\* their clocks forward by one hour.
DstDay == 3

\* time.Time{}: January 1 of year 1, long before every clock reading.
ZeroTime == 0 - 1000000

\* The zones of the time zone database known to the model.  New York moves
\* its clock at 02:00 local time, Havana and Beirut at 00:00.
KnownZones == {"UTC", "Asia/Tokyo", "America/New_York", "America/Havana", "Asia/Beirut"}
ZoneNames == KnownZones \cup {"", "Invalid/Timezone"}

\* loc, err := time.LoadLocation(schedule.Timezone); on an error loc = time.UTC.
\* The empty name is UTC.
LoadLocation(name) == IF name \in KnownZones THEN name ELSE "UTC"

StdOffset(loc) ==
    CASE loc = "Asia/Tokyo" -> 9
      [] loc = "America/New_York" -> 0 - 5
      [] loc = "America/Havana" -> 0 - 5
      [] loc = "Asia/Beirut" -> 2
      [] OTHER -> 0

HasDst(loc) == loc \in {"America/New_York", "America/Havana", "Asia/Beirut"}

\* The local standard hour of DstDay at which the clock moves forward.
DstStartsAt(loc) == IF loc = "America/New_York" THEN 2 ELSE 0

\* The instant of the transition.
Transition(loc) == DstDay * HoursPerDay + DstStartsAt(loc) - StdOffset(loc)

\* The offset from UTC in force in loc at instant u.
Offset(loc, u) ==
    IF HasDst(loc) /\ u >= Transition(loc) THEN StdOffset(loc) + 1 ELSE StdOffset(loc)

\* t.In(loc): the wall clock of loc at instant u, in hours since the local
\* midnight of day 0.
In(loc, u) == u + Offset(loc, u)

Hour(l) == l % HoursPerDay
Day(l) == l \div HoursPerDay
\* time.Weekday: Sunday is 0; day 0 is a Monday.
Weekday(l) == (Day(l) + 1) % DaysPerWeek
DayOfMonth(l) == (Day(l) % DaysPerMonth) + 1

\* time.Date(..., loc) for the wall clock l.  A wall clock inside the hour
\* skipped by the transition names no instant: Date returns a time that is
\* correct in one of the two zones of the transition, without a guarantee of
\* which; gap says which.
Date(loc, l, gap) ==
    LET exact == {u \in (l - HoursPerDay)..(l + HoursPerDay) : In(loc, u) = l}
    IN  IF exact # {}
        THEN CHOOSE u \in exact : \A v \in exact : u <= v
        ELSE IF gap = "before" THEN l - (StdOffset(loc) + 1)
        ELSE l - StdOffset(loc)

\* cronexpr.Parse succeeds: five fields, or six with a year.
Parses(expr) ==
    expr \in {"0 0 * * *", "0 0 * * 1", "0 0 1 * *", "0 12 * * *", "0 0 1 1 * 1970"}

\* The wall clock l matches the fields of the expression.  The year 1970 lies
\* before every clock reading.
Matches(expr, l) ==
    CASE expr = "0 0 * * *" -> Hour(l) = 0
      [] expr = "0 0 * * 1" -> Hour(l) = 0 /\ Weekday(l) = 1
      [] expr = "0 0 1 * *" -> Hour(l) = 0 /\ DayOfMonth(l) = 1
      [] expr = "0 12 * * *" -> Hour(l) = 12
      [] OTHER -> FALSE

\* expr.Next(fromTime): the fields of the wall clock of fromTime are
\* advanced to the next matching combination, which goes through time.Date
\* in the location of fromTime; the zero time when the years are exhausted.
CronexprNext(expr, loc, from, gap) ==
    LET l == In(loc, from)
        later == {m \in (l + 1)..(l + (DaysPerMonth + 1) * HoursPerDay) : Matches(expr, m)}
    IN  IF later = {} THEN ZeroTime
        ELSE Date(loc, CHOOSE m \in later : \A n \in later : m <= n, gap)

\* cronExpression := schedule.CronExpr, or the expression of the interval
\* type when that is empty.
EffectiveCron(schedule) ==
    IF schedule.cron_expr # "" THEN schedule.cron_expr
    ELSE CASE schedule.interval_type = "daily" -> "0 0 * * *"
           [] schedule.interval_type = "weekly" -> "0 0 * * 1"
           [] schedule.interval_type = "monthly" -> "0 0 1 * *"
           [] OTHER -> "0 0 * * *"

\* calculateNextRun with the clock reading t.  Truncate(time.Second) changes
\* nothing on whole hours.
CalculateNextRun(schedule, t, gap) ==
    LET loc == LoadLocation(schedule.timezone)
        expr == EffectiveCron(schedule)
    IN  IF ~Parses(expr) THEN t + 1
        ELSE CronexprNext(expr, loc, t, gap)

\* The schedules and clock readings given to CalculateNextRun.
CronInputs == {"", "0 0 * * *", "0 0 * * 1", "0 0 1 * *", "0 12 * * *",
               "0 0 1 1 * 1970", "every day"}
IntervalTypes == {"daily", "weekly", "monthly", "hourly"}
NextRunSchedules ==
    [timezone : ZoneNames, cron_expr : CronInputs, interval_type : IntervalTypes]
ClockReadings == HoursPerDay..MaxNow

\* A call of CalculateNextRun (by a tick, or by the handler of a create or
\* an edit).
CalcNextRun(schedule, t, gap) ==
    /\ ~nextRunCall.made
    /\ nextRunCall' = [made |-> TRUE, schedule |-> schedule, now |-> t, gap |-> gap,
                       result |-> CalculateNextRun(schedule, t, gap)]
    /\ UNCHANGED <<schedVars, wqVars, apiEdits, dueCalls, settingsRows, upsertOps,
                   lastUpsert, readers, instances, invalidations, domainCall,
                   tenantOp, tenantJobs, lifeVars>>

NextNextRun ==
    /\ ~nextRunCall.made
    /\ \E schedule \in NextRunSchedules : \E t \in ClockReadings :
          \E gap \in {"before", "after"} : CalcNextRun(schedule, t, gap)

SpecNextRun == Init /\ [][NextNextRun]_vars

----------------------------------------------------------------------------
(* ValidateRecipientDomains on strings written as sequences of characters *)

\* strings.ToLower, on the letters the inputs are written with.
ToLower(str) ==
    [i \in DOMAIN str |-> CASE str[i] = "U" -> "u"
                            [] str[i] = "A" -> "a"
                            [] str[i] = "B" -> "b"
                            [] str[i] = "C" -> "c"
                            [] OTHER -> str[i]]

\* strings.TrimSpace.
RECURSIVE TrimSpace(_)
TrimSpace(str) ==
    IF str = <<>> THEN <<>>
    ELSE IF Head(str) = " " THEN TrimSpace(Tail(str))
    ELSE IF str[Len(str)] = " " THEN TrimSpace(SubSeq(str, 1, Len(str) - 1))
    ELSE str

\* strings.Split(str, "@"): the pieces between the separators.
RECURSIVE SplitAt(_)
SplitAt(str) ==
    IF \A i \in DOMAIN str : str[i] # "@" THEN <<str>>
    ELSE LET k == CHOOSE i \in DOMAIN str :
                     str[i] = "@" /\ \A j \in 1..(i - 1) : str[j] # "@"
         IN  <<SubSeq(str, 1, k - 1)>> \o SplitAt(SubSeq(str, k + 1, Len(str)))

HasPrefix(str, prefix) ==
    Len(prefix) <= Len(str) /\ SubSeq(str, 1, Len(prefix)) = prefix

HasSuffix(str, suffix) ==
    /\ Len(suffix) <= Len(str)
    /\ SubSeq(str, Len(str) - Len(suffix) + 1, Len(str)) = suffix

\* extractDomain: the empty string unless the address has two pieces.
extractDomain(email) ==
    LET parts == SplitAt(email)
    IN  IF Len(parts) # 2 THEN <<>> ELSE ToLower(TrimSpace(parts[2]))

\* A suffix test on the text of the base domain alone.
DotBase_NoDot(baseDomain) == baseDomain

\* "."+baseDomain, what a domain under baseDomain ends with.
DotBase(baseDomain) == <<".">> \o baseDomain

\* isDomainAllowed: an exact match with an entry, or a match with an entry
\* that starts with "*.".
isDomainAllowed(domain, allowedDomains) ==
    LET d == ToLower(domain)
    IN  \E i \in DOMAIN allowedDomains :
           LET allowed == ToLower(TrimSpace(allowedDomains[i]))
               baseDomain == SubSeq(allowed, 3, Len(allowed))
           IN  \/ d = allowed
               \/ /\ HasPrefix(allowed, <<"*", ".">>)
                  /\ (d = baseDomain \/ HasSuffix(d, DotBase(baseDomain)))

\* The loop over allEmails from index i on: nil, or the error of the
\* first address that fails.
RECURSIVE ValidateFrom(_, _, _)
ValidateFrom(allEmails, i, allowedDomains) ==
    IF i > Len(allEmails) THEN "nil"
    ELSE LET email == TrimSpace(allEmails[i])
             domain == extractDomain(email)
         IN  IF email = <<>> THEN ValidateFrom(allEmails, i + 1, allowedDomains)
             ELSE IF domain = <<>> THEN "invalid email address format"
             ELSE IF ~isDomainAllowed(domain, allowedDomains)
                  THEN "email domain is not allowed"
             ELSE ValidateFrom(allEmails, i + 1, allowedDomains)

ValidateRecipientDomains(recipients, allowedDomains) ==
    IF Len(allowedDomains) = 0 THEN "nil"
    ELSE ValidateFrom(recipients.to \o recipients.cc \o recipients.bcc, 1,
                      allowedDomains)

\* The addresses of the tests, with "b" for example.com, "a.b" and "c.a.b"
\* for its subdomains, "ab" for a domain that ends with the same text and
\* "c" for another domain.
Addresses ==
    { <<"u", "@", "b">>,
      <<"u", "@", "a", ".", "b">>,
      <<"u", "@", "c", ".", "a", ".", "b">>,
      <<"u", "@", "a", "b">>,
      <<"U", "@", "B">>,
      <<" ", "u", "@", "b", " ">>,
      <<"u", "@", " ", "b">>,
      <<"u">>,
      <<"u", "@", "b", "@", "b">>,
      <<>>,
      <<" ">>,
      <<"u", "@", "c">>,
      <<"u", "@">> }

CopyAddresses == { <<"u", "@", "b">>, <<"u", "@", "c">>, <<" ">> }

Whitelists ==
    { <<>>,
      << <<"b">> >>,
      << <<"*", ".", "b">> >>,
      << <<"B">> >>,
      << <<" ", "b", " ">> >>,
      << <<"c">> >>,
      << <<"b">>, <<"c">> >>,
      << <<"*", ".", "B">> >>,
      << <<>> >>,
      << <<"*", ".", "a", ".", "b">> >>,
      << <<"c">>, <<"*", ".", "b">> >> }

RecipientSets ==
    [to : {<<>>} \cup {<<a>> : a \in Addresses}
                 \cup {<<a, b>> : a \in Addresses, b \in Addresses},
     cc : {<<>>} \cup {<<a>> : a \in CopyAddresses},
     bcc : {<<>>} \cup {<<a>> : a \in CopyAddresses}]

\* A call of ValidateRecipientDomains (by the handler of a create or an
\* edit of a schedule).
ValidateCall(recipients, allowedDomains) ==
    /\ ~domainCall.made
    /\ domainCall' = [made |-> TRUE, recipients |-> recipients,
                      allowed |-> allowedDomains,
                      result |-> ValidateRecipientDomains(recipients, allowedDomains)]
    /\ UNCHANGED <<schedVars, wqVars, apiEdits, dueCalls, settingsRows, upsertOps,
                   lastUpsert, readers, instances, invalidations, nextRunCall,
                   tenantOp, tenantJobs, lifeVars>>

NextDomains ==
    /\ ~domainCall.made
    /\ \E recipients \in RecipientSets : \E allowedDomains \in Whitelists :
          ValidateCall(recipients, allowedDomains)

SpecDomains == Init /\ [][NextDomains]_vars

----------------------------------------------------------------------------
(* The API and the executions it starts, with requests of two organizations *)

TenantSchedIds == 1..3
TenantRunIds == 1..3

\* A database with a schedule, a run and a settings row of each org.
InitTenants ==
    /\ schedules = [id \in {1, 2} |-> [InitialSchedule(id, "* * * * *") EXCEPT !.org_id = id]]
    /\ runs = [id \in {1, 2} |->
                 createRunDirect(<<>>, id, NewRun(schedules[id], 0))[id]]
    /\ settings = [o \in Tenants |-> InitialSettings(o)]
    /\ nextRunId = 3
    /\ nextSchedId = 3
    /\ InitProcess

\* What a request or a step of an execution leaves alone besides the
\* tables, the caches and the two row counters.
tenantRest ==
    <<now, nextVersion, workerPool, jobs, nextJobId, tickList, tickAdvance, faults,
      manualRuns, settingsReq, committed, wqQueue, wqCancelled, wqWorker, wqCalls,
      wqAccepted, wqExecuted, wqClosed, apiEdits, dueCalls, settingsRows, upsertOps,
      lastUpsert, readers, instances, invalidations, nextRunCall, domainCall,
      lifeVars>>

\* The request is logged: orgID := getOrgID(r), and what goes into the response.
Served(org, op, id, returned) ==
    /\ tenantOp.n < MaxTenantOps
    /\ tenantOp' = [n |-> tenantOp.n + 1, org |-> org, op |-> op, id |-> id,
                    returned |-> returned]

\* SELECT ... FROM schedules WHERE id = ? AND org_id = ?
GetSchedule(tbl, org, id) ==
    {tbl[i] : i \in {k \in DOMAIN tbl : k = id /\ tbl[k].org_id = org}}

\* SELECT ... FROM schedules WHERE org_id = ?
ListSchedules(tbl, org) ==
    {tbl[i] : i \in {k \in DOMAIN tbl : tbl[k].org_id = org}}

\* SELECT ... FROM runs WHERE id = ? AND org_id = ?
GetRun(tbl, org, id) ==
    {tbl[i] : i \in {k \in DOMAIN tbl : k = id /\ tbl[k].org_id = org}}

\* SELECT ... FROM runs WHERE schedule_id = ? AND org_id = ?
ListRuns(tbl, org, scheduleID) ==
    {tbl[i] : i \in {k \in DOMAIN tbl :
                        tbl[k].schedule_id = scheduleID /\ tbl[k].org_id = org}}

\* SELECT ... FROM settings WHERE org_id = ?
GetSettings(tbl, org) == {tbl[o] : o \in DOMAIN tbl \cap {org}}

\* GET /api/schedules
TenantList(org) ==
    /\ Served(org, "list", 0, ListSchedules(schedules, org))
    /\ UNCHANGED <<schedules, runs, settings, settingsCache, renderers, backends,
                   nextRunId, nextSchedId, tenantJobs, tenantRest>>

\* GET /api/schedules/{id}
TenantGet(org, id) ==
    /\ Served(org, "get", id, GetSchedule(schedules, org, id))
    /\ UNCHANGED <<schedules, runs, settings, settingsCache, renderers, backends,
                   nextRunId, nextSchedId, tenantJobs, tenantRest>>

\* GET /api/schedules/{id}/runs
TenantListRuns(org, id) ==
    /\ Served(org, "runs", id, ListRuns(runs, org, id))
    /\ UNCHANGED <<schedules, runs, settings, settingsCache, renderers, backends,
                   nextRunId, nextSchedId, tenantJobs, tenantRest>>

\* GET /api/runs/{id}/artifact: the run, then its schedule for the file name.
TenantArtifact(org, id) ==
    /\ LET found == GetRun(runs, org, id)
       IN  Served(org, "artifact", id,
                  found \cup UNION {GetSchedule(schedules, org, r.schedule_id) : r \in found})
    /\ UNCHANGED <<schedules, runs, settings, settingsCache, renderers, backends,
                   nextRunId, nextSchedId, tenantJobs, tenantRest>>

\* GET /api/settings
TenantSettingsGet(org) ==
    /\ Served(org, "settings", 0, GetSettings(settings, org))
    /\ UNCHANGED <<schedules, runs, settings, settingsCache, renderers, backends,
                   nextRunId, nextSchedId, tenantJobs, tenantRest>>

\* POST /api/schedules: the body is decoded, then schedule.OrgID = orgID.
TenantCreate(org, bodyOrg) ==
    /\ nextSchedId \in TenantSchedIds
    /\ Served(org, "create", nextSchedId, {})
    /\ LET body == [ScheduleBody("new", TRUE, "* * * * *", NULL) EXCEPT !.org_id = bodyOrg]
       IN  schedules' = createScheduleDirect(schedules, nextSchedId,
                                             [body EXCEPT !.org_id = org])
    /\ nextSchedId' = nextSchedId + 1
    /\ UNCHANGED <<runs, settings, settingsCache, renderers, backends, nextRunId,
                   tenantJobs, tenantRest>>

\* PUT /api/schedules/{id}: 404 unless GetSchedule(orgID, id) finds the row;
\* the body is decoded, then schedule.ID = scheduleID, schedule.OrgID = orgID.
TenantUpdate(org, id, bodyOrg) ==
    /\ Served(org, "update", id, GetSchedule(schedules, org, id))
    /\ schedules' =
          IF GetSchedule(schedules, org, id) = {} THEN schedules
          ELSE LET body == [ScheduleBody("edited", FALSE, "* * * * *", NULL)
                               EXCEPT !.org_id = bodyOrg]
               IN  updateScheduleDirect(schedules, [body EXCEPT !.id = id, !.org_id = org])
    /\ UNCHANGED <<runs, settings, settingsCache, renderers, backends, nextRunId,
                   nextSchedId, tenantJobs, tenantRest>>

\* DELETE /api/schedules/{id}
TenantDelete(org, id) ==
    /\ Served(org, "delete", id, {})
    /\ schedules' = deleteScheduleDirect(schedules, org, id)
    /\ runs' = IF schedules' # schedules THEN cascadeRuns(runs, id) ELSE runs
    /\ UNCHANGED <<settings, settingsCache, renderers, backends, nextRunId,
                   nextSchedId, tenantJobs, tenantRest>>

\* POST /api/settings: settings.OrgID = orgID, UpsertSettings, then
\* ClearRendererCache(orgID).
TenantSettingsPost(org, bodyOrg) ==
    /\ Served(org, "post settings", 0, {})
    /\ LET body == [org_id |-> bodyOrg, version |-> 1, smtp |-> TRUE]
       IN  settings' = upsertSettingsDirect(settings, [body EXCEPT !.org_id = org])
    /\ ClearRendererCache(org)
    /\ UNCHANGED <<schedules, runs, nextRunId, nextSchedId, tenantJobs, tenantRest>>

\* POST /api/schedules/{id}/run: 404 unless GetSchedule(orgID, id) finds the
\* row, else ExecuteSchedule(schedule) starts a goroutine.
TenantRunNow(org, id) ==
    /\ Served(org, "run", id, GetSchedule(schedules, org, id))
    /\ tenantJobs' =
          IF GetSchedule(schedules, org, id) = {} THEN tenantJobs
          ELSE [j \in DOMAIN tenantJobs \cup {tenantOp.n + 1} |->
                   IF j = tenantOp.n + 1
                   THEN [pc |-> "createRun", schedule |-> schedules[id],
                         run |-> NewRun(schedules[id], now)]
                   ELSE tenantJobs[j]]
    /\ UNCHANGED <<schedules, runs, settings, settingsCache, renderers, backends,
                   nextRunId, nextSchedId, tenantRest>>

\* The goroutine: store.CreateRun(run) sets run.ID.
TenantJobCreateRun(j) ==
    /\ j \in DOMAIN tenantJobs
    /\ tenantJobs[j].pc = "createRun"
    /\ nextRunId \in TenantRunIds
    /\ Served(tenantJobs[j].schedule.org_id, "job", j, {})
    /\ runs' = createRunDirect(runs, nextRunId, tenantJobs[j].run)
    /\ nextRunId' = nextRunId + 1
    /\ tenantJobs' = [tenantJobs EXCEPT ![j].run.id = nextRunId, ![j].pc = "load"]
    /\ UNCHANGED <<schedules, settings, settingsCache, renderers, backends,
                   nextSchedId, tenantRest>>

\* The goroutine: getCachedSettings(schedule.OrgID) fills the cache, and
\* s.renderers[schedule.OrgID] is looked up or created.
TenantJobLoad(j) ==
    /\ j \in DOMAIN tenantJobs
    /\ tenantJobs[j].pc = "load"
    /\ LET org == tenantJobs[j].schedule.org_id
           id == Cardinality(DOMAIN backends) + 1
       IN  /\ Served(org, "job", j, {})
           /\ IF org \in DOMAIN settingsCache \/ org \in DOMAIN settings
              THEN /\ settingsCache' =
                         [o \in DOMAIN settingsCache \cup {org} |->
                             IF o = org /\ org \notin DOMAIN settingsCache
                             THEN settings[org] ELSE settingsCache[o]]
                   /\ IF org \in DOMAIN renderers
                      THEN UNCHANGED <<renderers, backends>>
                      ELSE /\ backends' = [b \in DOMAIN backends \cup {id} |->
                                              IF b = id
                                              THEN NewBackend(settingsCache'[org].version)
                                              ELSE backends[b]]
                           /\ renderers' = [o \in DOMAIN renderers \cup {org} |->
                                              IF o = org THEN id ELSE renderers[o]]
              ELSE UNCHANGED <<settingsCache, renderers, backends>>
    /\ tenantJobs' = [tenantJobs EXCEPT ![j].pc = "finish"]
    /\ UNCHANGED <<schedules, runs, settings, nextRunId, nextSchedId, tenantRest>>

\* The goroutine: the run gets its outcome, store.UpdateRun(run) writes it,
\* and store.UpdateSchedule(schedule) writes the copy of the schedule back
\* with its last run time.
TenantJobFinish(j) ==
    /\ j \in DOMAIN tenantJobs
    /\ tenantJobs[j].pc = "finish"
    /\ Served(tenantJobs[j].schedule.org_id, "job", j, {})
    /\ \E status \in {"completed", "failed"} :
          runs' = updateRunDirect(runs, [tenantJobs[j].run EXCEPT !.status = status,
                                                                  !.finished_at = now])
    /\ schedules' = updateScheduleDirect(schedules,
                        [tenantJobs[j].schedule EXCEPT
                            !.last_run_at = tenantJobs[j].run.started_at])
    /\ tenantJobs' = [k \in DOMAIN tenantJobs \ {j} |-> tenantJobs[k]]
    /\ UNCHANGED <<settings, settingsCache, renderers, backends,
                   nextRunId, nextSchedId, tenantRest>>

NextTenants ==
    \/ \E org \in Tenants : TenantList(org)
    \/ \E org \in Tenants : \E id \in TenantSchedIds : TenantGet(org, id)
    \/ \E org \in Tenants : \E id \in TenantSchedIds : TenantListRuns(org, id)
    \/ \E org \in Tenants : \E id \in TenantRunIds : TenantArtifact(org, id)
    \/ \E org \in Tenants : TenantSettingsGet(org)
    \/ \E org \in Tenants : \E bodyOrg \in Tenants : TenantCreate(org, bodyOrg)
    \/ \E org \in Tenants : \E id \in TenantSchedIds : \E bodyOrg \in Tenants :
          TenantUpdate(org, id, bodyOrg)
    \/ \E org \in Tenants : \E id \in TenantSchedIds : TenantDelete(org, id)
    \/ \E org \in Tenants : \E bodyOrg \in Tenants : TenantSettingsPost(org, bodyOrg)
    \/ \E org \in Tenants : \E id \in TenantSchedIds : TenantRunNow(org, id)
    \/ \E j \in DOMAIN tenantJobs : TenantJobCreateRun(j)
    \/ \E j \in DOMAIN tenantJobs : TenantJobLoad(j)
    \/ \E j \in DOMAIN tenantJobs : TenantJobFinish(j)

SpecTenants == InitTenants /\ [][NextTenants]_vars

----------------------------------------------------------------------------
(* Scheduler.Stop and ClearRendererCache statement by statement, with jobs   *)
(* of two organizations running side by side.                                *)

\* What the steps of Stop and of ClearRendererCache leave alone besides the
\* state of the Scheduler.
lifeRest ==
    <<wqVars, apiEdits, dueCalls, settingsRows, upsertOps, lastUpsert, readers,
      instances, invalidations, nextRunCall, domainCall, tenantOp, tenantJobs,
      poolCap, now, nextJobId, schedules, runs, settings, nextRunId, nextVersion,
      workerPool, jobs, tickList, tickAdvance, faults, manualRuns>>

\* for orgID, renderer := range s.renderers: an error of Close is logged and
\* the loop goes on.
StopLoopNext(failed) == "closing"

\* s.cron.Stop(): the entry fires no more.  live is the renderer instances
\* that exist unclosed at this moment.
StopCron ==
    /\ stop.pc = "running"
    /\ stop' = [NoStop EXCEPT !.pc = "closing",
                              !.live = {b \in DOMAIN backends : ~backends[b].closed}]
    /\ UNCHANGED <<lifeRest, clearing, settingsCache, renderers, backends,
                   settingsReq, committed>>

\* One iteration of the loop: renderer.Close() on an entry of the map, in
\* the order the map yields, without the mutex.
StopClose(org) ==
    /\ stop.pc = "closing"
    /\ org \in DOMAIN renderers
    /\ renderers[org] \notin stop.closed
    /\ \E failed \in BOOLEAN :
          stop' = [stop EXCEPT !.closed = @ \cup {renderers[org]},
                               !.errors = IF failed THEN @ \cup {renderers[org]} ELSE @,
                               !.pc = StopLoopNext(failed)]
    /\ backends' = [backends EXCEPT ![renderers[org]].closed = TRUE]
    /\ UNCHANGED <<lifeRest, clearing, settingsCache, renderers, settingsReq, committed>>

\* The loop ends: every entry has been yielded, except that an entry put
\* into the map while the loop ran may have been left out.
StopReturn ==
    /\ stop.pc = "closing"
    /\ \A org \in DOMAIN renderers :
          renderers[org] \in stop.closed \/ renderers[org] \notin stop.live
    /\ stop' = [stop EXCEPT !.pc = "done"]
    /\ UNCHANGED <<lifeRest, clearing, settingsCache, renderers, backends,
                   settingsReq, committed>>

\* POST /api/settings after the upsert: ClearRendererCache(orgID) takes the
\* write lock, and closes the renderer when the map has one for the org.
ClearClose(org) ==
    /\ settingsReq[org] # 0
    /\ clearing.org = 0
    /\ clearing' = [org |-> org,
                    pc |-> IF org \in DOMAIN renderers THEN "delete" ELSE "settings",
                    removed |-> 0]
    /\ backends' = [b \in DOMAIN backends |->
                      IF org \in DOMAIN renderers /\ renderers[org] = b
                      THEN [backends[b] EXCEPT !.closed = TRUE]
                      ELSE backends[b]]
    /\ UNCHANGED <<lifeRest, stop, settingsCache, renderers, settingsReq, committed>>

\* delete(s.renderers, orgID); removed is the renderer whose entry it was.
ClearDeleteRenderer ==
    /\ clearing.pc = "delete"
    /\ renderers' = [o \in DOMAIN renderers \ {clearing.org} |-> renderers[o]]
    /\ clearing' = [clearing EXCEPT !.pc = "settings",
                                    !.removed = IF clearing.org \in DOMAIN renderers
                                                THEN renderers[clearing.org] ELSE 0]
    /\ UNCHANGED <<lifeRest, stop, settingsCache, backends, settingsReq, committed>>

\* delete(s.settingsCache, orgID), the deferred Unlock, and the handler's
\* response.
ClearReturn ==
    /\ clearing.pc = "settings"
    /\ settingsCache' = [o \in DOMAIN settingsCache \ {clearing.org} |-> settingsCache[o]]
    /\ committed' = [committed EXCEPT ![clearing.org] = settingsReq[clearing.org]]
    /\ settingsReq' = [settingsReq EXCEPT ![clearing.org] = 0]
    /\ clearing' = NoClearing
    /\ UNCHANGED <<lifeRest, stop, renderers, backends>>

\* A database with a settings row of each org and the schedules given, whose
\* writes all succeed, and a Scheduler with room for two jobs at a time.
InitShared(rows) ==
    /\ schedules = rows
    /\ runs = <<>>
    /\ settings = [o \in Tenants |-> InitialSettings(o)]
    /\ nextRunId = 1
    /\ nextSchedId = 3
    /\ InitScheduler(MaxShared, MaxFaults)

\* One schedule, of org 1.
InitLife == InitShared([id \in {1} |-> InitialSchedule(id, "* * * * *")])

\* Two schedules due at the first tick, of the same org or of two.
InitStop ==
    \E org \in Tenants :
        InitShared([id \in {1, 2} |->
            [InitialSchedule(id, "* * * * *") EXCEPT !.org_id = IF id = 1 THEN 1 ELSE org]])

NextLife ==
    \/ ApiRunNow(1)
    \/ \E org \in Orgs : ApiSettingsUpsert(org)
    \/ \E org \in Orgs : ClearClose(org)
    \/ ClearDeleteRenderer
    \/ ClearReturn
    \/ \E j \in JobIds : Acquire(j)
    \/ \E j \in JobIds : CreateRun(j)
    \/ \E j \in JobIds : BeginAttempt(j)
    \/ \E j \in JobIds : DbSettings(j)
    \/ \E j \in JobIds : CacheStore(j)
    \/ \E j \in JobIds : GetRenderer(j)
    \/ \E j \in JobIds : NewRenderer(j)
    \/ \E j \in JobIds : Render(j)
    \/ \E j \in JobIds : Persist(j)
    \/ \E j \in JobIds : Email(j)
    \/ \E j \in JobIds : Finalize(j)
    \/ \E j \in JobIds : UpdateLastRun(j)

SpecLife == InitLife /\ [][NextLife]_vars

\* The same Scheduler with its polling loop, asked to stop.
NextStop ==
    \/ TickBegin
    \/ TickStep
    \/ StopCron
    \/ \E org \in Tenants : StopClose(org)
    \/ StopReturn
    \/ \E j \in JobIds : JobStep(j)

SpecStop == InitStop /\ [][NextStop]_vars

----------------------------------------------------------------------------
(* The caches under settings updates: jobs started by run-now requests while *)
(* POST /api/settings requests are served.                                   *)

\* The database holds one schedule; the org has a settings row or none yet.
InitCache ==
    /\ schedules = [id \in {1} |-> InitialSchedule(id, "* * * * *")]
    /\ runs = <<>>
    /\ \E present \in BOOLEAN :
         settings = [o \in (IF present THEN Orgs ELSE {}) |-> InitialSettings(o)]
    /\ nextRunId = 1
    /\ nextSchedId = 2
    /\ InitProcess

NextCache ==
    \/ \E id \in SchedIds : ApiRunNow(id)
    \/ \E org \in Orgs : ApiSettingsUpsert(org)
    \/ \E org \in Orgs : ApiSettingsClear(org)
    \/ \E j \in JobIds : Acquire(j)
    \/ \E j \in JobIds : CreateRun(j)
    \/ \E j \in JobIds : BeginAttempt(j)
    \/ \E j \in JobIds : DbSettings(j)
    \/ \E j \in JobIds : CacheStore(j)
    \/ \E j \in JobIds : GetRenderer(j)
    \/ \E j \in JobIds : NewRenderer(j)
    \/ \E j \in JobIds : Render(j)
    \/ \E j \in JobIds : Persist(j)
    \/ \E j \in JobIds : Email(j)
    \/ \E j \in JobIds : Finalize(j)
    \/ \E j \in JobIds : UpdateLastRun(j)

SpecCache == InitCache /\ [][NextCache]_vars

----------------------------------------------------------------------------
(* pkg/store: the write queue, its callers and its worker goroutine *)

dispVars == <<now, nextVersion, settingsCache, renderers, backends, workerPool,
              jobs, nextJobId, tickList, tickAdvance, manualRuns, settingsReq,
              committed>>

OpTypes == {"opCreateSchedule", "opUpdateSchedule", "opDeleteSchedule",
            "opCreateRun", "opUpdateRun", "opUpsertSettings"}

\* What the callers of the model hand to the store: they edit or delete
\* schedule 1, add a schedule, add a run of schedule 1, finish run 1, and post
\* the settings of org 1.
EditedSchedule == [InitialSchedule(1, "* * * * *") EXCEPT !.name = "edited"]
FinishedRun == [NoRun EXCEPT !.id = 1, !.status = "completed", !.finished_at = 0]
PostedSettings == [org_id |-> 1, version |-> 1, smtp |-> TRUE]

\* op := <-wq.queue: the oldest op leaves the channel.
Receive_Newest(q) == [op |-> q[Len(q)], rest |-> SubSeq(q, 1, Len(q) - 1)]

Receive_Peek(q) == [op |-> Head(q), rest |-> q]

Receive(q) == [op |-> Head(q), rest |-> Tail(q)]

\* <-wq.ctx.Done() in the second select of enqueue can proceed.
WaitCtxDone_Never == FALSE

WaitCtxDone == wqCancelled

\* A call of Store.CreateSchedule, UpdateSchedule, DeleteSchedule, CreateRun,
\* UpdateRun or UpsertSettings enters enqueue: the op and its response channel.
Enqueue(c, type) ==
    /\ wqCalls[c].pc = "idle"
    /\ \A d \in CallIds : d < c => wqCalls[d].pc # "idle"
    /\ wqCalls' = [wqCalls EXCEPT ![c] = [NoCall EXCEPT !.pc = "send", !.opType = type]]
    /\ UNCHANGED <<dispVars, apiVars, schedules, runs, settings, nextRunId, nextSchedId, faults,
                   wqQueue, wqCancelled, wqWorker, wqAccepted, wqExecuted, wqClosed>>

\* First select of enqueue, case wq.queue <- op: the channel has room.
Send(c) ==
    /\ wqCalls[c].pc = "send"
    /\ Len(wqQueue) < QueueCap
    /\ wqQueue' = Append(wqQueue, c)
    /\ wqAccepted' = Append(wqAccepted, c)
    /\ wqCalls' = [wqCalls EXCEPT ![c].pc = "wait"]
    /\ UNCHANGED <<dispVars, apiVars, schedules, runs, settings, nextRunId, nextSchedId, faults,
                   wqCancelled, wqWorker, wqExecuted, wqClosed>>

\* First select of enqueue, case <-wq.ctx.Done(): return wq.ctx.Err().
SendCancelled(c) ==
    /\ wqCalls[c].pc = "send"
    /\ wqCancelled
    /\ wqCalls' = [wqCalls EXCEPT ![c].pc = "done", ![c].result = "canceled"]
    /\ UNCHANGED <<dispVars, apiVars, schedules, runs, settings, nextRunId, nextSchedId, faults,
                   wqQueue, wqCancelled, wqWorker, wqAccepted, wqExecuted, wqClosed>>

\* Second select of enqueue, case result := <-response: return result.err.
WaitResult(c) ==
    /\ wqCalls[c].pc = "wait"
    /\ wqCalls[c].response # ""
    /\ wqCalls' = [wqCalls EXCEPT ![c].pc = "done", ![c].result = wqCalls[c].response,
                                  ![c].response = ""]
    /\ UNCHANGED <<dispVars, apiVars, schedules, runs, settings, nextRunId, nextSchedId, faults,
                   wqQueue, wqCancelled, wqWorker, wqAccepted, wqExecuted, wqClosed>>

\* Second select of enqueue, case <-wq.ctx.Done(): return wq.ctx.Err().
WaitCancelled(c) ==
    /\ wqCalls[c].pc = "wait"
    /\ WaitCtxDone
    /\ wqCalls' = [wqCalls EXCEPT ![c].pc = "done", ![c].result = "canceled"]
    /\ UNCHANGED <<dispVars, apiVars, schedules, runs, settings, nextRunId, nextSchedId, faults,
                   wqQueue, wqCancelled, wqWorker, wqAccepted, wqExecuted, wqClosed>>

\* processQueue, outer select, case op := <-wq.queue.
ProcessReceive ==
    /\ wqWorker.pc = "select"
    /\ wqQueue # <<>>
    /\ wqWorker' = [pc |-> "execute", op |-> Receive(wqQueue).op]
    /\ wqQueue' = Receive(wqQueue).rest
    /\ UNCHANGED <<dispVars, apiVars, schedules, runs, settings, nextRunId, nextSchedId, faults,
                   wqCancelled, wqCalls, wqAccepted, wqExecuted, wqClosed>>

\* processQueue, outer select, case <-wq.ctx.Done(): the drain loop is entered.
ProcessCtxDone ==
    /\ wqWorker.pc = "select"
    /\ wqCancelled
    /\ wqWorker' = [wqWorker EXCEPT !.pc = "drain"]
    /\ UNCHANGED <<dispVars, apiVars, schedules, runs, settings, nextRunId, nextSchedId, faults,
                   wqQueue, wqCancelled, wqCalls, wqAccepted, wqExecuted, wqClosed>>

\* processQueue, drain loop, case op := <-wq.queue.
DrainReceive ==
    /\ wqWorker.pc = "drain"
    /\ wqQueue # <<>>
    /\ wqWorker' = [pc |-> "drainExecute", op |-> Receive(wqQueue).op]
    /\ wqQueue' = Receive(wqQueue).rest
    /\ UNCHANGED <<dispVars, apiVars, schedules, runs, settings, nextRunId, nextSchedId, faults,
                   wqCancelled, wqCalls, wqAccepted, wqExecuted, wqClosed>>

\* processQueue, drain loop, default: return, and the deferred close(wq.done).
DrainDefault ==
    /\ wqWorker.pc = "drain"
    /\ wqQueue = <<>>
    /\ wqWorker' = [wqWorker EXCEPT !.pc = "done"]
    /\ UNCHANGED <<dispVars, apiVars, schedules, runs, settings, nextRunId, nextSchedId, faults,
                   wqQueue, wqCancelled, wqCalls, wqAccepted, wqExecuted, wqClosed>>

\* executeOp: the statement of the op's type runs on the database, a create
\* stores the new id in the caller's object, and the result is sent on the
\* op's response channel (buffered, one slot).
executeOp(c, ok) ==
    LET type == wqCalls[c].opType IN
    /\ schedules' =
          IF ok /\ type = "opCreateSchedule"
          THEN createScheduleDirect(schedules, nextSchedId,
                                    [EditedSchedule EXCEPT !.name = "added"])
          ELSE IF ok /\ type = "opUpdateSchedule"
          THEN updateScheduleDirect(schedules, EditedSchedule)
          ELSE IF ok /\ type = "opDeleteSchedule"
          THEN deleteScheduleDirect(schedules, 1, 1)
          ELSE schedules
    /\ nextSchedId' = IF ok /\ type = "opCreateSchedule" THEN nextSchedId + 1
                      ELSE nextSchedId
    /\ runs' =
          IF ok /\ type = "opCreateRun"
          THEN createRunDirect(runs, nextRunId, NewRun(EditedSchedule, 0))
          ELSE IF ok /\ type = "opUpdateRun"
          THEN updateRunDirect(runs, FinishedRun)
          ELSE runs
    /\ nextRunId' = IF ok /\ type = "opCreateRun" THEN nextRunId + 1 ELSE nextRunId
    /\ settings' = IF ok /\ type = "opUpsertSettings"
                   THEN upsertSettingsDirect(settings, PostedSettings)
                   ELSE settings
    /\ wqCalls' = [wqCalls EXCEPT
          ![c].response = IF ok THEN "ok" ELSE "err",
          ![c].id = IF ok /\ type = "opCreateSchedule" THEN nextSchedId
                    ELSE IF ok /\ type = "opCreateRun" THEN nextRunId
                    ELSE @]
    /\ wqExecuted' = Append(wqExecuted, c)

\* wq.executeOp(db, op) in processQueue, in the outer select or in the drain loop.
ProcessExecute ==
    /\ wqWorker.pc \in {"execute", "drainExecute"}
    /\ \E ok \in WriteResults :
         /\ Fault(ok)
         /\ executeOp(wqWorker.op, ok)
    /\ wqWorker' = [pc |-> IF wqWorker.pc = "execute" THEN "select" ELSE "drain",
                    op |-> 0]
    /\ UNCHANGED <<dispVars, apiVars, wqQueue, wqCancelled, wqAccepted, wqClosed>>

\* Store.Close calls shutdown: wq.cancel().
shutdown ==
    /\ ~wqCancelled
    /\ wqCancelled' = TRUE
    /\ UNCHANGED <<dispVars, apiVars, schedules, runs, settings, nextRunId, nextSchedId, faults,
                   wqQueue, wqWorker, wqCalls, wqAccepted, wqExecuted, wqClosed>>

\* shutdown's <-wq.done returns once the worker has closed it; Close then
\* closes the database and returns.
Close ==
    /\ wqCancelled
    /\ wqWorker.pc = "done"
    /\ ~wqClosed
    /\ wqClosed' = TRUE
    /\ UNCHANGED <<dispVars, apiVars, schedules, runs, settings, nextRunId, nextSchedId, faults,
                   wqQueue, wqCancelled, wqWorker, wqCalls, wqAccepted, wqExecuted>>

\* NewStore on a database that holds schedule 1, no run and no settings row.
InitWQ ==
    /\ schedules = [id \in {1} |-> InitialSchedule(id, "* * * * *")]
    /\ runs = <<>>
    /\ settings = <<>>
    /\ nextRunId = 1
    /\ nextSchedId = 2
    /\ InitProcess

CallerStep(c) == Send(c) \/ SendCancelled(c) \/ WaitResult(c) \/ WaitCancelled(c)

WorkerStep ==
    ProcessReceive \/ ProcessCtxDone \/ DrainReceive \/ DrainDefault \/ ProcessExecute

NextWQ ==
    \/ \E c \in CallIds : \E type \in OpTypes : Enqueue(c, type)
    \/ \E c \in CallIds : Send(c)
    \/ \E c \in CallIds : SendCancelled(c)
    \/ \E c \in CallIds : WaitResult(c)
    \/ \E c \in CallIds : WaitCancelled(c)
    \/ ProcessReceive
    \/ ProcessCtxDone
    \/ DrainReceive
    \/ DrainDefault
    \/ ProcessExecute
    \/ shutdown
    \/ Close

SpecWQ == InitWQ /\ [][NextWQ]_vars

\* The write queue under callers of CreateRun and UpdateRun alone (enqueue and
\* processQueue do not look at the type of an op), with the Go scheduler
\* running every goroutine that can take a step: the callers inside enqueue
\* and the worker.
RunOpTypes == {"opCreateRun", "opUpdateRun"}

NextWQRuns ==
    \/ \E c \in CallIds : \E type \in RunOpTypes : Enqueue(c, type)
    \/ \E c \in CallIds : Send(c)
    \/ \E c \in CallIds : SendCancelled(c)
    \/ \E c \in CallIds : WaitResult(c)
    \/ \E c \in CallIds : WaitCancelled(c)
    \/ ProcessReceive
    \/ ProcessCtxDone
    \/ DrainReceive
    \/ DrainDefault
    \/ ProcessExecute
    \/ shutdown
    \/ Close

FairSpecWQ ==
    /\ InitWQ
    /\ [][NextWQRuns]_vars
    /\ \A c \in CallIds : WF_vars(CallerStep(c))
    /\ WF_vars(WorkerStep)

----------------------------------------------------------------------------
(* Claims about the dispatcher *)

\* C1: once a tick has advanced a schedule's next_run_at past now, no later
\* tick selects that schedule before the advanced time arrives: every schedule
\* in the due list of a tick has reached the time the last tick advanced it to.
C1_NoReselectBeforeAdvance ==
    \A i \in 1..Len(tickList) :
        tickAdvance[tickList[i].id] <= now

\* C2: a job the polling loop starts is started only when the advanced
\* next_run_at of its schedule is in the store: in the step that starts it the
\* stored row holds the next_run_at the job carries, which is later than now.
C2_AdvancePersistedBeforeStart ==
    [][\A j \in JobIds :
          (j \notin DOMAIN jobs /\ j \in DOMAIN jobs' /\ jobs'[j].origin = "tick")
          => /\ jobs'[j].schedule.id \in DOMAIN schedules'
             /\ schedules'[jobs'[j].schedule.id].next_run_at
                    = jobs'[j].schedule.next_run_at
             /\ jobs'[j].schedule.next_run_at > now']_vars

\* The jobs that hold a worker slot: past the send on workerPool, not yet returned.
Holders == {j \in DOMAIN jobs : jobs[j].pc # "acquire"}

\* C4: the jobs that acquired a slot and have not released it are at most
\* maxConcurrent, every job creating its Run or rendering holds one of the
\* tokens in the channel, and a job that returned holds none.
C4_SlotsBounded ==
    /\ Cardinality(Holders) <= MaxConcurrent
    /\ workerPool = Cardinality(Holders)

\* A job waits for a slot while another one, holding the only free slot,
\* renders; a CreateRun has failed before.
C4_Witness ==
    /\ workerPool = MaxConcurrent
    /\ \E j \in DOMAIN jobs : jobs[j].pc = "acquire"
    /\ \E j \in DOMAIN jobs : jobs[j].pc = "render"

C13_WaitingJobAcquires ==
    /\ [][\A j \in JobIds :
            (j \in DOMAIN jobs /\ j \notin DOMAIN jobs') => jobs[j].pc # "acquire"]_vars
    /\ \A j \in JobIds :
          (j \in DOMAIN jobs /\ jobs[j].pc = "acquire")
              ~> (j \in DOMAIN jobs /\ jobs[j].pc = "createRun")

\* A job started by the polling loop waits for a slot while the job holding
\* the last one is between two attempts.
C13_Witness ==
    /\ workerPool = MaxConcurrent
    /\ \E j \in DOMAIN jobs : jobs[j].pc = "acquire" /\ jobs[j].origin = "tick"
    /\ \E j \in DOMAIN jobs : jobs[j].pc = "attempt" /\ jobs[j].attempt > 0

\* C14: no two executions of a schedule that the polling loop dispatched are
\* in flight at the same time: two goroutines started by ticks never carry
\* the same schedule.
C14_NoOverlapFromPolling ==
    \A j, k \in DOMAIN jobs :
        (j # k /\ jobs[j].origin = "tick" /\ jobs[k].origin = "tick")
            => jobs[j].schedule.id # jobs[k].schedule.id

----------------------------------------------------------------------------
(* Claims about the schedules under API edits *)

\* The step wrote the enabled flag or the next run of the stored schedule id,
\* or created the row.
NextRunWritten(id) ==
    /\ id \in DOMAIN schedules'
    /\ \/ id \notin DOMAIN schedules
       \/ schedules'[id].enabled # schedules[id].enabled
       \/ schedules'[id].next_run_at # schedules[id].next_run_at

\* C15: every write of a schedule's enabled flag or next run leaves an
\* enabled schedule with a non-null next_run_at that lies in the future at
\* the time of the write, and a disabled schedule with a null next_run_at.
C15_NextRunMatchesEnabled ==
    [][\A id \in SchedIds :
          NextRunWritten(id) =>
              IF schedules'[id].enabled
              THEN /\ schedules'[id].next_run_at # NULL
                   /\ schedules'[id].next_run_at > now'
              ELSE schedules'[id].next_run_at = NULL]_vars

\* The step is a write of the dispatcher: the advance of a tick or the
\* last-run update of a job.
DispatcherWrite == TickStep \/ \E j \in JobIds : UpdateLastRun(j)

\* C16: a write of the dispatcher changes nothing in a stored schedule but
\* next_run_at and last_run_at: name, enabled flag, cron expression and
\* organisation keep the values they had, an API edit made during the job
\* included.
C16_DispatcherWritesRunFieldsOnly ==
    [][DispatcherWrite =>
          \A id \in DOMAIN schedules \cap DOMAIN schedules' :
              /\ schedules'[id].name = schedules[id].name
              /\ schedules'[id].enabled = schedules[id].enabled
              /\ schedules'[id].cron_expr = schedules[id].cron_expr
              /\ schedules'[id].org_id = schedules[id].org_id]_vars

----------------------------------------------------------------------------
(* Claims about the end of an execution *)

C18_ManualRunSamePath ==
    /\ [](/\ Cardinality(Holders) = workerPool
          /\ \A j \in DOMAIN jobs :
               /\ jobs[j].attempt <= maxRetries
               /\ (jobs[j].pc \in {"acquire", "createRun"}) = (jobs[j].run.id = 0)
               /\ (jobs[j].pc = "finalize" /\ jobs[j].err # NoErr) =>
                      jobs[j].attempt = maxRetries
               /\ jobs[j].pc = "updateSchedule" =>
                      jobs[j].run.status \in {"completed", "failed"})
    /\ [][/\ \A id \in DOMAIN schedules :
               (manualRuns < MaxManual /\ nextJobId <= MaxJobs /\ ApiRunNow(id)) =>
                   /\ jobs'[nextJobId].pc = "acquire"
                   /\ jobs'[nextJobId].schedule = schedules[id]
          /\ \A j \in DOMAIN jobs \cap DOMAIN jobs' :
               /\ jobs'[j].origin = jobs[j].origin
               /\ jobs[j].run.id # 0 => jobs'[j].run.id = jobs[j].run.id
               /\ (jobs[j].run.id = 0 /\ jobs'[j].run.id # 0) =>
                      /\ jobs[j].pc = "createRun"
                      /\ jobs'[j].run.id \notin DOMAIN runs
                      /\ runs'[jobs'[j].run.id].status = "running"
                      /\ runs'[jobs'[j].run.id].schedule_id = jobs[j].schedule.id
                      /\ DOMAIN runs' = DOMAIN runs \cup {jobs'[j].run.id}]_vars

\* A run-now job of a disabled schedule without a next run has made all its
\* attempts, holds the slot and has finalized its Run as failed.
C18_Witness ==
    \E j \in DOMAIN jobs :
        /\ jobs[j].origin = "manual"
        /\ ~jobs[j].schedule.enabled
        /\ jobs[j].schedule.next_run_at = NULL
        /\ jobs[j].pc = "updateSchedule"
        /\ jobs[j].attempt = maxRetries
        /\ jobs[j].run.id \in DOMAIN runs
        /\ runs[jobs[j].run.id].status = "failed"
        /\ workerPool = 1

----------------------------------------------------------------------------
(* Claims about the independence of the polling loop and the jobs *)

\* C19 as amended: whatever the jobs in flight do, the polling loop can take
\* its next step (the scan of a tick, the advance and dispatch of a due
\* schedule), and a job past the send on workerPool can take its own; a job
\* at the send can go on exactly when the pool has a free slot.
C19_TickNeverWaits ==
    /\ (tickList = <<>> /\ now < MaxTime) => ENABLED TickBegin
    /\ (tickList # <<>> /\ nextJobId <= MaxJobs) => ENABLED TickStep
    /\ \A j \in DOMAIN jobs :
         /\ jobs[j].pc # "acquire" => ENABLED JobStep(j)
         /\ jobs[j].pc = "acquire" =>
                (ENABLED Acquire(j)) = (workerPool < MaxConcurrent)

\* A job is in the backoff of a retry and holds the slot; a tick later than
\* its start has scanned, advanced and dispatched another schedule, whose
\* job stands at the send on workerPool.
C19_Witness ==
    \E j, k \in DOMAIN jobs :
        /\ jobs[j].pc = "attempt" /\ jobs[j].attempt > 0
        /\ now > jobs[j].run.started_at
        /\ jobs[k].origin = "tick"
        /\ jobs[k].schedule.id # jobs[j].schedule.id
        /\ jobs[k].pc = "acquire"
        /\ tickAdvance[jobs[k].schedule.id] > now

\* C19 as stated: no job in flight is ever kept from its next step by
\* another job.
C19_NoJobDelaysAnother ==
    \A j \in DOMAIN jobs : ENABLED JobStep(j)

----------------------------------------------------------------------------
(* Claims about the due query *)

\* The elements of a sequence.
Range(seq) == {seq[k] : k \in 1..Len(seq)}

\* C20: a call of GetDueSchedules returns each enabled row whose
\* next_run_at is null or not later than the clock read by the call, once,
\* and no other row, in ascending order of next_run_at (null first); the
\* call changes no table; two calls in a row that read the same clock with
\* no write between them return the same rows.
C20_DueQueryExactAndReadOnly ==
    /\ [](\A i \in 1..Len(dueCalls) :
            LET c == dueCalls[i]
            IN  /\ Range(c.result) =
                      {c.table[id] : id \in {k \in DOMAIN c.table :
                          /\ c.table[k].enabled
                          /\ \/ c.table[k].next_run_at = NULL
                             \/ c.table[k].next_run_at <= c.at}}
                /\ Len(c.result) = Cardinality(Range(c.result))
                /\ \A k \in 1..(Len(c.result) - 1) :
                      c.result[k].next_run_at <= c.result[k + 1].next_run_at
                /\ (i > 1 /\ dueCalls[i - 1].at = c.at
                          /\ dueCalls[i - 1].table = c.table) =>
                       Range(dueCalls[i - 1].result) = Range(c.result))
    /\ [][DueQuery => UNCHANGED <<schedules, runs, settings>>]_vars

\* Two calls in a row at the same minute on the same table: both return the
\* row without a next run before the row due at this very minute, and the
\* table holds nothing else.
C20_Witness ==
    /\ Len(dueCalls) = 2
    /\ dueCalls[1].at = dueCalls[2].at
    /\ dueCalls[1].table = dueCalls[2].table
    /\ Len(dueCalls[2].result) = 2
    /\ dueCalls[2].result[1].next_run_at = NULL
    /\ dueCalls[2].result[2].next_run_at = dueCalls[2].at
    /\ dueCalls[2].at > 0

----------------------------------------------------------------------------
(* Claims about the next-run calculation *)

\* C26: the instant returned by calculateNextRun is strictly later than the
\* clock reading of the call, whatever the interval type, the timezone name
\* and the cron expression of the schedule.
C26_NextRunInFuture ==
    nextRunCall.made => nextRunCall.result > nextRunCall.now

\* The zone a timezone name stands for: itself when it is a zone of the
\* database, UTC otherwise.
ZoneOf(name) == IF name \in KnownZones THEN name ELSE "UTC"

\* The instants after t, within a month and a day, whose wall clock in loc
\* matches the expression.
MatchingAfter(expr, loc, t) ==
    {u \in (t + 1)..(t + (DaysPerMonth + 1) * HoursPerDay) : Matches(expr, In(loc, u))}

\* C27: for an expression that parses and matches some instant to come, the
\* result of calculateNextRun is the first instant strictly after the clock
\* reading whose wall clock in the schedule's zone (UTC for an unknown
\* name) matches the effective expression.
C27_FirstMatchingInstant ==
    nextRunCall.made =>
        LET expr == EffectiveCron(nextRunCall.schedule)
            loc == ZoneOf(nextRunCall.schedule.timezone)
            coming == MatchingAfter(expr, loc, nextRunCall.now)
        IN  (Parses(expr) /\ coming # {}) =>
                /\ nextRunCall.result \in coming
                /\ \A u \in coming : nextRunCall.result <= u

\* The expression the interval type stands for.
DerivedCron(type) ==
    CASE type = "daily" -> "0 0 * * *"
      [] type = "weekly" -> "0 0 * * 1"
      [] type = "monthly" -> "0 0 1 * *"
      [] OTHER -> "0 0 * * *"

\* C28 (the expression): a schedule with an explicit expression gets the
\* next run of that expression whatever its interval type, and a schedule
\* without one gets the next run of the expression derived from its
\* interval type.
DerivedExpressionUsed ==
    nextRunCall.made =>
        LET sch == nextRunCall.schedule
            expr == IF sch.cron_expr # "" THEN sch.cron_expr
                    ELSE DerivedCron(sch.interval_type)
        IN  nextRunCall.result =
               CalculateNextRun([sch EXCEPT !.cron_expr = expr, !.interval_type = "hourly"],
                                nextRunCall.now, nextRunCall.gap)

\* C28: the effective expression is the explicit one or else the one
\* derived from the interval type, so that a daily schedule without an
\* explicit expression next fires at a local midnight after now, whatever
\* the distance from now.
C28_DailyFiresAtLocalMidnight ==
    /\ DerivedExpressionUsed
    /\ (/\ nextRunCall.made
        /\ nextRunCall.schedule.cron_expr = ""
        /\ nextRunCall.schedule.interval_type = "daily") =>
           /\ nextRunCall.result > nextRunCall.now
           /\ Hour(In(ZoneOf(nextRunCall.schedule.timezone), nextRunCall.result)) = 0

----------------------------------------------------------------------------
(* Claims about the domain whitelist *)

\* The text of str between its first and its last character that is not a
\* space, in lower case.
Normal(str) ==
    LET inked == {i \in DOMAIN str : str[i] # " "}
        first == CHOOSE i \in inked : \A j \in inked : i <= j
        last == CHOOSE i \in inked : \A j \in inked : j <= i
    IN  IF inked = {} THEN <<>>
        ELSE [i \in 1..(last - first + 1) |->
                 LET ch == str[first + i - 1]
                 IN  IF ch \in {"U", "A", "B", "C"}
                     THEN CHOOSE low \in {"u", "a", "b", "c"} :
                             <<ch, low>> \in {<<"U", "u">>, <<"A", "a">>,
                                              <<"B", "b">>, <<"C", "c">>}
                     ELSE ch]

\* The address has exactly one '@' and some domain after it.
WellFormed(address) ==
    /\ Cardinality({i \in DOMAIN address : address[i] = "@"}) = 1
    /\ \E i \in DOMAIN address : address[i] = "@" /\ Normal(SubSeq(address, i + 1, Len(address))) # <<>>

\* The domain of a well-formed address.
DomainOf(address) ==
    LET at == CHOOSE i \in DOMAIN address : address[i] = "@"
    IN  Normal(SubSeq(address, at + 1, Len(address)))

\* The domain equals the entry, or the entry is "*.base" and the domain is
\* base or ends with a dot followed by base.
Whitelisted(domain, entry) ==
    \/ domain = Normal(entry)
    \/ /\ Len(Normal(entry)) >= 2
       /\ Normal(entry)[1] = "*"
       /\ Normal(entry)[2] = "."
       /\ LET base == SubSeq(Normal(entry), 3, Len(Normal(entry)))
          IN  \/ domain = base
              \/ \E k \in DOMAIN domain :
                    domain[k] = "." /\ SubSeq(domain, k + 1, Len(domain)) = base

\* C29: ValidateRecipientDomains accepts exactly when the whitelist is
\* empty, or every non-blank address of to, cc and bcc has exactly one '@'
\* and a domain that, ignoring case (and surrounding spaces), equals an
\* entry of the whitelist or is the base, or under the base, of a "*.base"
\* entry; a domain that ends with the text of the base without the dot
\* before it is not under the base.
C29_AcceptsExactlyWhitelisted ==
    domainCall.made =>
        LET rec == domainCall.recipients
            all == rec.to \o rec.cc \o rec.bcc
        IN  (domainCall.result = "nil") <=>
               \/ domainCall.allowed = <<>>
               \/ \A i \in DOMAIN all :
                     Normal(all[i]) # <<>> =>
                        /\ WellFormed(all[i])
                        /\ \E e \in DOMAIN domainCall.allowed :
                              Whitelisted(DomainOf(all[i]), domainCall.allowed[e])

\* An address at "ab" was rejected under the whitelist "*.b", with an
\* address at "c.a.b" before it.
C29_Witness ==
    /\ domainCall.made
    /\ domainCall.allowed = << <<"*", ".", "b">> >>
    /\ domainCall.recipients.to = << <<"u", "@", "c", ".", "a", ".", "b">>,
                                     <<"u", "@", "a", "b">> >>
    /\ domainCall.result = "email domain is not allowed"

----------------------------------------------------------------------------
(* Claims about the isolation of organizations *)

\* What belongs to an org: its rows of the three tables, its entry of the
\* settings cache, its cached renderer and the state of that renderer.
OwnedBy(org) ==
    [schedules |-> {schedules[i] : i \in {k \in DOMAIN schedules : schedules[k].org_id = org}},
     runs |-> {runs[i] : i \in {k \in DOMAIN runs : runs[k].org_id = org}},
     settings |-> {settings[o] : o \in DOMAIN settings \cap {org}},
     cached |-> {settingsCache[o] : o \in DOMAIN settingsCache \cap {org}},
     renderer |-> {<<renderers[o], backends[renderers[o]]>> : o \in DOMAIN renderers \cap {org}}]

\* C30: a request, or a step of an execution, on behalf of one org returns
\* rows of that org only and leaves what belongs to the other orgs as it was.
C30_TenantsIsolated ==
    [][/\ \A row \in tenantOp'.returned : row.org_id = tenantOp'.org
       /\ \A org \in Tenants \ {tenantOp'.org} : OwnedBy(org)' = OwnedBy(org)]_vars

\* Org 1 asked for the deletion of schedule 2, which belongs to org 2 and
\* is still there, and so is its run.
C30_Witness ==
    /\ tenantOp.op = "delete"
    /\ tenantOp.org = 1
    /\ tenantOp.id = 2
    /\ 2 \in DOMAIN schedules
    /\ schedules[2].org_id = 2
    /\ \E r \in DOMAIN runs : runs[r].schedule_id = 2 /\ runs[r].org_id = 2

----------------------------------------------------------------------------
(* Claims about the settings cache under concurrent reads *)

\* The getCachedSettings calls for an org that began and ended with e
\* invalidations made.
CallsBetween(org, e) ==
    {c \in ReaderIds : /\ readers[c].pc = "done" /\ readers[c].org_id = org
                       /\ readers[c].from = e /\ readers[c].to = e}

\* C25: the getCachedSettings calls for a tenant made between two
\* invalidations return the same settings instance, and at most one of them
\* reads the store.
C25_OneReadOneInstance ==
    \A org \in Orgs : \A e \in 0..MaxInvalidations :
        /\ \A c, d \in CallsBetween(org, e) :
              readers[c].instance = readers[d].instance
        /\ Cardinality({c \in CallsBetween(org, e) : readers[c].read}) <= 1

----------------------------------------------------------------------------
(* Claims about the store operations on schedules, runs and settings *)

\* C21: UpdateSchedule returns an error when the schedule it is to
\* overwrite exists no more: the last-run update of a job whose schedule was
\* deleted meanwhile gets an error back.
C21_UpdateOfVanishedFails ==
    [][\A j \in JobIds :
          (UpdateLastRun(j) /\ jobs[j].schedule.id \notin DOMAIN schedules) =>
              updateScheduleError(schedules, jobs[j].schedule, faults' = faults) # <<>>]_vars

\* C22: when DeleteSchedule has completed, the store holds no Run of the
\* deleted schedule.
C22_DeleteRemovesRuns ==
    [][\A id \in SchedIds :
          (ApiDeleteSchedule(id) /\ id \notin DOMAIN schedules') =>
              \A r \in DOMAIN runs' : runs'[r].schedule_id # id]_vars

\* C23: an upsert for a tenant without a row inserts one, an upsert for a
\* tenant with a row updates it and adds none; every upsert is applied, and
\* whenever no upsert is under way each tenant that had one has exactly one
\* row, which holds the values of the upsert executed last for it.
C23_OneRowLastUpsert ==
    /\ [](\A c \in UpsertIds : upsertOps[c].pc = "done" => upsertOps[c].result = "ok")
    /\ [](\A org \in Tenants :
            /\ Cardinality(RowsOf(settingsRows, org)) <= 1
            /\ WorkerIdle(upsertOps) =>
                  IF lastUpsert[org] = 0
                  THEN RowsOf(settingsRows, org) = {}
                  ELSE \E r \in DOMAIN settingsRows :
                          /\ RowsOf(settingsRows, org) = {r}
                          /\ settingsRows[r].values = lastUpsert[org])
    /\ [][\A c \in UpsertIds :
            UpsertWrite(c) =>
               LET org == upsertOps[c].org_id
               IN  IF RowsOf(settingsRows, org) = {}
                   THEN DOMAIN settingsRows' # DOMAIN settingsRows
                   ELSE /\ DOMAIN settingsRows' = DOMAIN settingsRows
                        /\ \A r \in RowsOf(settingsRows, org) :
                              settingsRows'[r].values = c]_vars

\* Three upserts were sent together and all are done: two for tenant 1, the
\* first of which inserted and the other updated, and one for tenant 2; each
\* tenant has its one row.
C23_Witness ==
    /\ \A c \in UpsertIds : upsertOps[c].pc = "done"
    /\ \E c, d \in UpsertIds :
         /\ c # d
         /\ upsertOps[c].org_id = 1 /\ ~upsertOps[c].existing
         /\ upsertOps[d].org_id = 1 /\ upsertOps[d].existing
         /\ lastUpsert[1] = d
    /\ lastUpsert[2] # 0
    /\ Cardinality(DOMAIN settingsRows) = 2

\* C24: a read of the settings of a tenant that has no row creates the row,
\* so that the tenant has settings from then on.
C24_FirstReadCreatesSettings ==
    [][\A j \in JobIds :
          (DbSettings(j) /\ Org(j) \notin DOMAIN settings) =>
              Org(j) \in DOMAIN settings']_vars

----------------------------------------------------------------------------
(* Claims about the caches *)

\* C3: an attempt that starts after a settings update has completed (the
\* upsert and the cache clear) renders with the settings of that update or
\* newer ones, on a renderer built from them.
C3_FreshAfterUpdate ==
    \A j \in DOMAIN jobs :
        jobs[j].pc = "render" =>
            /\ jobs[j].settings.version >= jobs[j].since
            /\ backends[jobs[j].renderer].config >= jobs[j].since

\* C9: the stored status of a Run changes only from running to completed or
\* to failed.
C9_StatusMonotonic ==
    [][\A r \in DOMAIN runs :
          (r \in DOMAIN runs' /\ runs'[r].status # runs[r].status)
          => /\ runs[r].status = "running"
             /\ runs'[r].status \in {"completed", "failed"}]_vars

\* A Run is stored completed with its email status written, while a second
\* Run of the same schedule is stored running.
C9_Witness ==
    \E r, q \in DOMAIN runs :
        /\ runs[r].status = "completed"
        /\ runs[r].email_error # ""
        /\ runs[q].status = "running"
        /\ runs[q].schedule_id = runs[r].schedule_id

C12_ArtifactStoredBeforeEmail ==
    \A j \in DOMAIN jobs :
        (jobs[j].pc = "email" /\ jobs[j].settings.smtp)
            => /\ jobs[j].run.id \in DOMAIN runs
               /\ runs[jobs[j].run.id].artifact

----------------------------------------------------------------------------
(* Claims about the attempts of an execution *)

\* C31: an attempt that ends with a configuration error (the org has no
\* settings) is the only attempt of its job: the job goes on to mark the
\* run failed and starts no further attempt.
C31_ConfigErrorNotRetried ==
    \A j \in DOMAIN jobs :
        (jobs[j].lastErr # NoErr /\ jobs[j].lastErr[1] = "no settings configured") =>
            /\ jobs[j].attempt = 1
            /\ jobs[j].pc \in {"finalize", "updateSchedule"}

\* The pcs of a job inside executeScheduleOnce.
InAttempt == {"dbSettings", "cacheStore", "getRenderer", "newRenderer", "render",
              "persist", "email"}

\* What C33 says of a state: a job has called executeScheduleOnce at most three
\* times; a call after the first follows a call that returned an error (the
\* error of the attempt just before it); the sleeps taken are 1 s before the
\* second call and 4 s before the third.
RetriesBounded ==
    \A j \in DOMAIN jobs :
        /\ jobs[j].onceCalls <= 3
        /\ jobs[j].slept \in {<<>>, <<1>>, <<1, 4>>}
        /\ jobs[j].pc \in InAttempt =>
              /\ Len(jobs[j].slept) = jobs[j].onceCalls - 1
              /\ jobs[j].onceCalls > 1 =>
                    /\ jobs[j].lastErr # NoErr
                    /\ jobs[j].lastErr[2] = jobs[j].onceCalls - 1

\* What C33 says of a step: executeScheduleOnce is called again only by a job
\* whose last call returned an error, and never after three calls; a job
\* whose call returned nil leaves the loop.
RetriesFollowErrors ==
    \A j \in DOMAIN jobs :
        /\ (j \in DOMAIN jobs' /\ jobs'[j].onceCalls > jobs[j].onceCalls) =>
              /\ jobs[j].onceCalls < 3
              /\ jobs[j].onceCalls > 0 => jobs[j].lastErr[2] = jobs[j].onceCalls
        /\ (jobs[j].pc = "email" /\ j \in DOMAIN jobs') =>
              jobs'[j].pc \in {"email", "finalize"}
        /\ jobs[j].pc \in {"finalize", "updateSchedule"} =>
              j \notin DOMAIN jobs' \/ jobs'[j].onceCalls = jobs[j].onceCalls

\* C33: an execution makes at most 3 attempts, attempt k+1 only after attempt
\* k returned an error, none after the first success, and it waits 1 s before
\* the second attempt and 4 s before the third.
C33_AtMostThreeAttemptsWithBackoff == []RetriesBounded /\ [][RetriesFollowErrors]_vars

\* A job whose third attempt succeeded after two failures and both sleeps.
C33_Witness ==
    \E j \in DOMAIN jobs :
        /\ jobs[j].pc = "finalize" /\ jobs[j].err = NoErr
        /\ jobs[j].onceCalls = 3 /\ jobs[j].slept = <<1, 4>>

\* What C34 says of a state: a job whose RenderDashboard returned the PDF
\* (its run carries the artifact) is in the persist or email step of that
\* attempt or past the loop with no error, never at or before a render again;
\* the persist and email steps are only reached with the PDF.
RenderedOnce ==
    \A j \in DOMAIN jobs :
        /\ jobs[j].run.artifact =>
              /\ jobs[j].pc \in {"persist", "email", "finalize", "updateSchedule"}
              /\ jobs[j].err = NoErr
        /\ (jobs[j].pc \in {"persist", "email"} \/ jobs[j].sends > 0) => jobs[j].run.artifact

\* What C34 says of a step: the step in which RenderDashboard returns an error
\* ends the attempt without a write of the run and without an email; the
\* steps after a successful render call executeScheduleOnce no more.
FailedRenderSkipsRest ==
    \A j \in DOMAIN jobs :
        /\ (jobs[j].pc = "render" /\ j \in DOMAIN jobs'
              /\ jobs'[j].pc \notin {"render", "persist"}) =>
              /\ jobs'[j].pc \in {"attempt", "finalize"}
              /\ jobs'[j].lastErr = <<"failed to render dashboard", jobs[j].onceCalls>>
              /\ jobs'[j].sends = jobs[j].sends
              /\ runs' = runs
        /\ (jobs[j].run.artifact /\ j \in DOMAIN jobs') =>
              jobs'[j].onceCalls = jobs[j].onceCalls

OneRunEach ==
    \A j \in DOMAIN jobs :
        /\ jobs[j].pc \in {"acquire", "createRun"} => jobs[j].run.id = 0
        /\ jobs[j].pc \notin {"acquire", "createRun"} =>
              /\ jobs[j].run.id \in DOMAIN runs
              /\ \A k \in DOMAIN jobs \ {j} : jobs[k].run.id # jobs[j].run.id

\* The Run of a job in a step: a row is added only by a job at CreateRun,
\* which holds a slot and had no Run; the row is running; a job keeps the
\* Run it has, and a row is changed only by the job whose Run it is.
OneRunKept ==
    /\ DOMAIN runs' # DOMAIN runs =>
          \E j \in DOMAIN jobs \cap DOMAIN jobs' :
              /\ jobs[j].pc = "createRun" /\ jobs[j].run.id = 0 /\ workerPool > 0
              /\ jobs[j].onceCalls = 0
              /\ jobs'[j].run.id \notin DOMAIN runs
              /\ DOMAIN runs' = DOMAIN runs \cup {jobs'[j].run.id}
              /\ runs'[jobs'[j].run.id].status = "running"
    /\ \A j \in DOMAIN jobs \cap DOMAIN jobs' :
          jobs[j].run.id # 0 => jobs'[j].run.id = jobs[j].run.id
    /\ \A r \in DOMAIN runs \cap DOMAIN runs' :
          runs'[r] # runs[r] => \E j \in DOMAIN jobs : jobs[j].run.id = r /\ jobs'[j] # jobs[j]

----------------------------------------------------------------------------
(* Claims about Stop and the renderers *)

\* C32: once Stop has been called no tick begins any more, and when Stop
\* returns Close has been called on every renderer that was live when it was
\* called, the ones whose neighbour's Close failed included.
C32_StopClosesEveryRenderer ==
    [][/\ stop.pc # "running" => now' = now
       /\ stop'.pc = "done" => stop'.live \subseteq stop'.closed]_vars

\* C36: ClearRendererCache is one step for the jobs: no job reads the
\* renderers map of an org between the removal of the org's renderer entry and
\* the removal of its settings entry, and when the call returns neither map
\* has an entry of the org.
C36_ClearIsAtomic ==
    [][/\ \A j \in DOMAIN jobs \cap DOMAIN jobs' :
             (jobs[j].pc = "getRenderer" /\ jobs'[j].pc # "getRenderer") =>
                 ~(clearing.pc = "settings" /\ clearing.org = Org(j)
                     /\ clearing.removed # 0
                     /\ Org(j) \notin DOMAIN renderers
                     /\ Org(j) \in DOMAIN settingsCache)
       /\ (clearing.org # 0 /\ clearing'.org = 0) =>
             /\ clearing.org \notin DOMAIN renderers'
             /\ clearing.org \notin DOMAIN settingsCache']_vars

\* C37: every renderer that was created and not closed is the entry of its
\* org in the renderers map, so an org has at most one live renderer, also
\* when several of its jobs come to their first render together.
C37_OneLiveRendererPerTenant ==
    \A b \in DOMAIN backends :
        ~backends[b].closed => \E org \in DOMAIN renderers : renderers[org] = b

\* C39: Close is never called on a renderer that a job holds for a render (the
\* job is at RenderDashboard with that renderer in hand), and no job takes a
\* renderer to RenderDashboard, or is inside it, after Close was called on it.
C39_NoCloseUnderRender ==
    [][/\ \A b \in DOMAIN backends :
             (~backends[b].closed /\ backends'[b].closed) =>
                 ~\E j \in DOMAIN jobs : jobs[j].pc = "render" /\ jobs[j].renderer = b
       /\ \A j \in DOMAIN jobs \cap DOMAIN jobs' :
             /\ (jobs[j].pc # "render" /\ jobs'[j].pc = "render") =>
                   ~backends'[jobs'[j].renderer].closed
             /\ (jobs[j].pc = "render" /\ jobs'[j] # jobs[j]) =>
                   ~backends[jobs[j].renderer].closed]_vars

----------------------------------------------------------------------------
(* Claims about the write queue *)

\* The number of times the worker executed the op of call c.
Count(seq, c) == Cardinality({i \in 1..Len(seq) : seq[i] = c})

\* The ops that have left the channel, in the order they left it: the executed
\* ones and the one the worker is executing.
Started ==
    wqExecuted \o (IF wqWorker.pc \in {"execute", "drainExecute"}
                   THEN <<wqWorker.op>> ELSE <<>>)

\* C5: the mutating operations are executed by the one worker, never two at a
\* time, in the order the queue accepted them: the ops that left the channel
\* are the first ones accepted, in that order, the channel holds the rest, and
\* at most one op has left the channel without being executed yet.
C5_SingleWriterInOrder ==
    /\ Len(Started) <= Len(wqAccepted)
    /\ Started = SubSeq(wqAccepted, 1, Len(Started))
    /\ wqQueue = SubSeq(wqAccepted, Len(Started) + 1, Len(wqAccepted))
    /\ Len(wqAccepted) - Len(wqQueue) - Len(wqExecuted) \in {0, 1}

\* The worker executes an op while two ops accepted after it wait in the channel.
C5_Witness ==
    /\ wqWorker.pc = "execute"
    /\ Len(wqQueue) = 2
    /\ wqCalls[wqQueue[1]].opType # wqCalls[wqQueue[2]].opType

\* The calls of the given type whose create was applied (it set the id).
Created(type) == {c \in CallIds : wqCalls[c].opType = type /\ wqCalls[c].id # 0}

ReturnedOk(c) == wqCalls[c].pc = "done" /\ wqCalls[c].result = "ok"

\* C6: a call that returned without error had its op executed exactly once
\* before it returned and its effect is in the store; no op is executed twice;
\* creates get distinct ids; the store holds exactly the rows of the applied
\* creates, which are the creates that returned success once every caller
\* has returned from a queue that was not shut down.
C6_ExactlyOnce ==
    /\ \A c \in CallIds : Count(wqExecuted, c) <= 1
    /\ \A c \in CallIds : ReturnedOk(c) =>
          /\ Count(wqExecuted, c) = 1
          /\ wqCalls[c].opType = "opCreateSchedule" =>
                /\ wqCalls[c].id \in DOMAIN schedules
                /\ schedules[wqCalls[c].id].name = "added"
          /\ wqCalls[c].opType = "opCreateRun" => wqCalls[c].id \in DOMAIN runs
          /\ wqCalls[c].opType = "opDeleteSchedule" => 1 \notin DOMAIN schedules
          /\ wqCalls[c].opType = "opUpsertSettings" =>
                1 \in DOMAIN settings /\ settings[1] = PostedSettings
    /\ \A c, d \in CallIds :
          (c # d /\ wqCalls[c].opType = wqCalls[d].opType
                 /\ wqCalls[c].id # 0 /\ wqCalls[d].id # 0)
          => wqCalls[c].id # wqCalls[d].id
    /\ DOMAIN runs = {wqCalls[c].id : c \in Created("opCreateRun")}
    /\ DOMAIN schedules \ {1} = {wqCalls[c].id : c \in Created("opCreateSchedule")}
    /\ (~wqCancelled /\ \A c \in CallIds : wqCalls[c].pc = "done") =>
          /\ Created("opCreateRun") = {c \in CallIds :
                 wqCalls[c].opType = "opCreateRun" /\ ReturnedOk(c)}
          /\ Created("opCreateSchedule") = {c \in CallIds :
                 wqCalls[c].opType = "opCreateSchedule" /\ ReturnedOk(c)}

\* Every caller has returned from a queue that is not shut down: two
\* concurrent CreateRun calls succeeded and a third call got an error.
C6_Witness ==
    /\ ~wqCancelled
    /\ \A c \in CallIds : wqCalls[c].pc = "done"
    /\ \E c, d, e \in CallIds :
          /\ c # d
          /\ wqCalls[c].opType = "opCreateRun" /\ ReturnedOk(c)
          /\ wqCalls[d].opType = "opCreateRun" /\ ReturnedOk(d)
          /\ wqCalls[e].result = "err"
    /\ Cardinality(DOMAIN runs) = 2

\* C7: shutdown drains the queue: once the worker has stopped every accepted
\* op has been executed, and once Close has returned every write that
\* returned success is among the executed ones.
C7_ShutdownDrains ==
    /\ wqWorker.pc = "done" =>
          \A i \in 1..Len(wqAccepted) : Count(wqExecuted, wqAccepted[i]) = 1
    /\ wqClosed =>
          \A c \in CallIds : ReturnedOk(c) => Count(wqExecuted, c) = 1

\* C8: a call that is inside enqueue when the queue is shut down, or enters
\* it afterwards, returns; a call returns the cancellation error only from a
\* queue that is shut down, and any other result only when the worker
\* delivered it.
C8_PendingReturnsOnShutdown ==
    /\ [](\A c \in CallIds : wqCalls[c].pc = "done" =>
            /\ wqCalls[c].result \in {"ok", "err", "canceled"}
            /\ wqCalls[c].result = "canceled" => wqCancelled
            /\ wqCalls[c].result # "canceled" => Count(wqExecuted, c) = 1)
    /\ \A c \in CallIds :
          (wqCancelled /\ wqCalls[c].pc \in {"send", "wait"})
              ~> (wqCalls[c].pc = "done")

\* After a shutdown three calls have returned the cancellation error: one
\* whose op was never accepted, one whose op stays in the channel, and one
\* whose op the worker executed.
C8_Witness ==
    \E c, d, e \in CallIds :
        /\ wqCalls[c].pc = "done" /\ wqCalls[c].result = "canceled"
        /\ Count(wqAccepted, c) = 0
        /\ wqCalls[d].pc = "done" /\ wqCalls[d].result = "canceled"
        /\ Count(wqQueue, d) = 1 /\ wqWorker.pc = "done"
        /\ wqCalls[e].pc = "done" /\ wqCalls[e].result = "canceled"
        /\ Count(wqExecuted, e) = 1

----------------------------------------------------------------------------
(* Claims about writes that return the cancellation error *)

\* C38: the op of a call that returned the cancellation error has not been
\* applied to the database, now or at any later time.
C38_CancelledNeverApplied ==
    \A c \in CallIds :
        (wqCalls[c].pc = "done" /\ wqCalls[c].result = "canceled") =>
            ~(Count(wqExecuted, c) > 0 /\ wqCalls[c].response = "ok")

----------------------------------------------------------------------------
(* Claims about the end of every Run *)

\* C40: every Run that is in the store is eventually there with a terminal
\* status (an execution creates at most one Run, so the ids of the Runs are
\* among those of the jobs).
C40_EveryRunEnds ==
    \A r \in JobIds :
        (r \in DOMAIN runs) ~> (r \in DOMAIN runs /\ runs[r].status \in {"completed", "failed"})

====
